---------------------------- MODULE Spec2Model ----------------------------
(***************************************************************************)
(* Backtest engine of src/utils/backtest.ts (runBacktest, linearInterpolate, *)
(* calculateIrr, buildPayoffCurve, calculateStrategyCost,                   *)
(* deriveBaseCapital) and the strategy                                      *)
(* panel of src/utils/strategyMath.ts (calculateLegPayoff,                  *)
(* generatePayoffData, calculateStrategyStats), with the display curve over *)
(* absolute prices of src/unnamed/part_004.                                 *)
(*                                                                         *)
(* Numbers.  The source computes in IEEE doubles; the model computes in    *)
(* fixed point on integer grids:                                           *)
(*   - moves (variations, returnPct, effective returns): MoveScale units    *)
(*     per 1.0, the grid of variation.toFixed(6);                           *)
(*   - money (prices, premiums, capital, curve returns, cash flows): one   *)
(*     unit is 0.000001 of the currency, so that profit.toFixed(4) rounds   *)
(*     to a multiple of Fixed4Unit;                                        *)
(*   - IRR rates: RateScale units per 1.0, so that -0.999 is representable. *)
(* A quotient is rounded to the grid (RoundDiv) where a double would be    *)
(* rounded to 53 bits.  Inside the IRR solver magnitudes above MaxFinite   *)
(* become PosInf/NegInf and Inf-Inf becomes NaN, as doubles overflow.      *)
(***************************************************************************)
EXTENDS Integers, Sequences, FiniteSets, TLC

VARIABLES
    \* the caller's values, passed to every call (BacktestInput)
    history, payoff, baseCapital, monthlyWithdrawal, monthlyInvestment,
    applyLosses, frequency,
    \* the locals of runBacktest
    pc, idx, safeCapital, rows, chartPoints, equityPoints,
    capitalWith, capitalWithout, firstPeriod,
    lossBaseYear, lossBaseMonth, lossMonths,
    periodWithdrawal, periodInvestment, wins, losses,
    strategyReturnBrl, reads,
    \* the value returned, and what the IRR solver was given and did
    result, irrIn, irrOut,
    \* the locals of the same call run beside it with no withdrawal and no
    \* contribution
    ref,
    \* bookkeeping of the caller: the inputs as first given, whether a
    \* call has returned, and the previous call's result
    given, legs, calledBefore, prevResult,
    \* the strategy panel: the price shown, the curve and the statistics
    \* made of the legs, one leg's payoff and the cost of the legs
    currentPrice, payoffData, priceData, stats, legPayoff, strategyCost,
    \* the summary of a run: its periods and the capital it ends with
    numPeriods, finalCapitalWithWithdrawal

vars == <<history, payoff, baseCapital, monthlyWithdrawal, monthlyInvestment,
          applyLosses, frequency, pc, idx, safeCapital, rows, chartPoints,
          equityPoints, capitalWith, capitalWithout, firstPeriod,
          lossBaseYear, lossBaseMonth, lossMonths, periodWithdrawal,
          periodInvestment, wins, losses, strategyReturnBrl, reads,
          result, irrIn, irrOut, ref, given, legs, calledBefore, prevResult,
          currentPrice, payoffData, priceData, stats, legPayoff,
          strategyCost, numPeriods, finalCapitalWithWithdrawal>>

inputVars == <<history, payoff, baseCapital, monthlyWithdrawal,
               monthlyInvestment, applyLosses, frequency, given, legs>>

strategyVars == <<currentPrice, payoffData, priceData, stats, legPayoff,
                  strategyCost>>

summaryVars == <<numPeriods, finalCapitalWithWithdrawal>>

localVars == <<rows, chartPoints, equityPoints, capitalWith,
               capitalWithout, firstPeriod, lossBaseYear, lossBaseMonth,
               lossMonths, periodWithdrawal, periodInvestment, wins, losses,
               strategyReturnBrl, reads>>

-----------------------------------------------------------------------------
(* Bounds of the model *)

\* points of a history
MaxHist == 3

\* points of a history with no move
MaxFlat == 2

\* samples of a curve given to the interpolation alone
MaxCurve == 4

\* entries of a cash-flow vector given to the solver alone
MaxFlows == 4

-----------------------------------------------------------------------------
(* Grids and program constants *)

MoveScale == 1000000

Fixed4Unit == 100

RateScale == 1000

MaxFinite == 2000000

Null == -2000000000

DEFAULT_CONTRACT_SIZE == 100

WEEKLY_PERIODS_PER_MONTH == 433

DefaultRangePct == 300000

DefaultPoints == 250

PosInf == MaxFinite + 1

NegInf == -(MaxFinite + 1)

NaN == MaxFinite + 2

\* the largest product the arithmetic forms before dividing
MaxProduct == 1000 * MaxFinite

-----------------------------------------------------------------------------
(* Arithmetic *)

Abs(x) == IF x < 0 THEN -x ELSE x

Min(a, b) == IF a < b THEN a ELSE b

Max(a, b) == IF a > b THEN a ELSE b

\* a / b rounded to the nearest integer, halves away from zero (b # 0)
RoundDiv(a, b) ==
    LET n == IF b < 0 THEN -a ELSE a
        d == Abs(b)
    IN  IF n >= 0 THEN (n + d \div 2) \div d ELSE -((-n + d \div 2) \div d)

IsFinite(x) == x # NaN /\ x # Null /\ Abs(x) <= MaxFinite

Sat(x) == IF x > MaxFinite THEN PosInf ELSE IF x < -MaxFinite THEN NegInf ELSE x

FNeg(a) == IF a = NaN THEN NaN ELSE -a

FAdd(a, b) ==
    IF a = NaN \/ b = NaN THEN NaN
    ELSE IF ~IsFinite(a) /\ ~IsFinite(b) THEN (IF a = b THEN a ELSE NaN)
    ELSE IF ~IsFinite(a) THEN a
    ELSE IF ~IsFinite(b) THEN b
    ELSE Sat(a + b)

FSub(a, b) == FAdd(a, FNeg(b))

\* a * k for a finite integer k
FMul(a, k) ==
    IF a = NaN THEN NaN
    ELSE IF ~IsFinite(a) THEN (IF k = 0 THEN NaN ELSE IF k > 0 THEN a ELSE -a)
    ELSE IF a = 0 \/ k = 0 THEN 0
    ELSE IF Abs(a) > MaxFinite \div Abs(k)
         THEN (IF (a > 0) = (k > 0) THEN PosInf ELSE NegInf)
    ELSE a * k

\* a * num / den for finite num >= 0 and den > 0; a product too large for
\* the grid is formed after the division
FScale(a, num, den) ==
    IF a = NaN THEN NaN
    ELSE IF ~IsFinite(a) THEN (IF num = 0 THEN NaN ELSE a)
    ELSE IF num = 0 THEN 0
    ELSE IF Abs(a) <= MaxProduct \div num THEN Sat(RoundDiv(a * num, den))
    ELSE FMul(RoundDiv(a, den), num)

\* Number.isFinite of a double held as an integer
NumberIsFinite(x) == x # NaN /\ x # PosInf /\ x # NegInf /\ x # Null

\* a * b = q * c + r with 0 <= r < c, for a >= 0, b >= 0, c > 0, formed
\* without a product or a sum wider than the integers of the model
RECURSIVE MulDivParts(_, _, _)
MulDivParts(a, b, c) ==
    IF b = 0 THEN [q |-> 0, r |-> 0]
    ELSE LET h == MulDivParts(a, b \div 2, c)
             twice == IF h.r >= c - h.r
                      THEN [q |-> 2 * h.q + 1, r |-> h.r - (c - h.r)]
                      ELSE [q |-> 2 * h.q, r |-> 2 * h.r]
             am == a % c
         IN  IF b % 2 = 0 THEN twice
             ELSE IF twice.r >= c - am
                  THEN [q |-> twice.q + a \div c + 1,
                        r |-> twice.r - (c - am)]
                  ELSE [q |-> twice.q + a \div c, r |-> twice.r + am]

\* a * b / c rounded to the nearest integer, halves away from zero (c # 0)
MulDiv(a, b, c) ==
    LET p == MulDivParts(Abs(a), Abs(b), Abs(c))
        m == p.q + (IF p.r >= Abs(c) - p.r THEN 1 ELSE 0)
        negative == ((a < 0) # (b < 0)) # (c < 0)
    IN  IF negative THEN -m ELSE m

FGt0(x) == x # NaN /\ x > 0

FLt0(x) == x # NaN /\ x < 0

-----------------------------------------------------------------------------
(* Time: a calendar date, read as the source reads a Date *)

getFullYear(date) == date.year

\* Date.getMonth is 0-based
getMonth(date) == date.month - 1

\* days from 1970-01-01 to the date (proleptic Gregorian calendar)
DaysFromCivil(date) ==
    LET y == IF date.month <= 2 THEN date.year - 1 ELSE date.year
        era == y \div 400
        yoe == y - era * 400
        mp == (date.month + 9) % 12
        doy == (153 * mp + 2) \div 5 + date.day - 1
        doe == yoe * 365 + yoe \div 4 - yoe \div 100 + doy
    IN  era * 146097 + doe - 719468

\* Date.getTime, in days
getTime(date) == DaysFromCivil(date)

-----------------------------------------------------------------------------
(* strategyMath.ts: the payoff of one leg *)

\* the payoff with calls priced as puts and puts as calls
calculateLegPayoff_swapped(leg, underlyingPrice) ==
    LET multiplier == IF leg.contractSize = Null \/ leg.contractSize = 0
                      THEN DEFAULT_CONTRACT_SIZE ELSE leg.contractSize
    IN  IF leg.instrument = "UNDERLYING"
        THEN LET move == underlyingPrice - leg.premium
                 pnl == IF leg.side = "BUY" THEN move ELSE -move
             IN  pnl * leg.quantity * multiplier
        ELSE IF leg.type = "NONE" \/ leg.strike = Null THEN 0
        ELSE LET raw == IF leg.type = "PUT"
                        THEN Max(0, underlyingPrice - leg.strike) - leg.premium
                        ELSE Max(0, leg.strike - underlyingPrice) - leg.premium
                 pnl == IF leg.side = "SELL" THEN -raw ELSE raw
             IN  pnl * leg.quantity * multiplier

\* the payoff with the intrinsic value not floored at zero
calculateLegPayoff_unfloored(leg, underlyingPrice) ==
    LET multiplier == IF leg.contractSize = Null \/ leg.contractSize = 0
                      THEN DEFAULT_CONTRACT_SIZE ELSE leg.contractSize
    IN  IF leg.instrument = "UNDERLYING"
        THEN LET move == underlyingPrice - leg.premium
                 pnl == IF leg.side = "BUY" THEN move ELSE -move
             IN  pnl * leg.quantity * multiplier
        ELSE IF leg.type = "NONE" \/ leg.strike = Null THEN 0
        ELSE LET raw == IF leg.type = "CALL"
                        THEN underlyingPrice - leg.strike - leg.premium
                        ELSE leg.strike - underlyingPrice - leg.premium
                 pnl == IF leg.side = "SELL" THEN -raw ELSE raw
             IN  pnl * leg.quantity * multiplier

\* a leg whose contractSize is absent carries Null; `x || 100` also takes 0
calculateLegPayoff(leg, underlyingPrice) ==
    LET multiplier == IF leg.contractSize = Null \/ leg.contractSize = 0
                      THEN DEFAULT_CONTRACT_SIZE ELSE leg.contractSize
    IN  IF leg.instrument = "UNDERLYING"
        THEN LET move == underlyingPrice - leg.premium
                 pnl == IF leg.side = "BUY" THEN move ELSE -move
             IN  pnl * leg.quantity * multiplier
        ELSE IF leg.type = "NONE" \/ leg.strike = Null THEN 0
        ELSE LET raw == IF leg.type = "CALL"
                        THEN Max(0, underlyingPrice - leg.strike) - leg.premium
                        ELSE Max(0, leg.strike - underlyingPrice) - leg.premium
                 pnl == IF leg.side = "SELL" THEN -raw ELSE raw
             IN  pnl * leg.quantity * multiplier

RECURSIVE SumLegPayoff(_, _, _)
SumLegPayoff(ls, price, k) ==
    IF k > Len(ls) THEN 0
    ELSE calculateLegPayoff(ls[k], price) + SumLegPayoff(ls, price, k + 1)

-----------------------------------------------------------------------------
(* backtest.ts: the payoff curve *)

EmptyCurve(basePrice) ==
    [basePrice |-> basePrice, variations |-> <<>>, returns |-> <<>>]

\* the step taken over the number of points, not the number of intervals
VariationAt_points(rangePct, points, i) ==
    RoundDiv(2 * rangePct * i - rangePct * points, points)

\* Number(variation.toFixed(6)) of variation = -rangePct + step * i with
\* step = rangePct * 2 / max(1, points - 1): the exact value, rounded to the
\* move grid
VariationAt(rangePct, points, i) ==
    LET d == Max(1, points - 1)
    IN  RoundDiv(2 * rangePct * i - rangePct * d, d)

\* Number(profit.toFixed(4))
ToFixed4(profit) == RoundDiv(profit, Fixed4Unit) * Fixed4Unit

\* the price of sample i: basePrice * (1 + variation), on the money grid
PriceAt(basePrice, rangePct, points, i) ==
    MulDiv(basePrice, MoveScale + VariationAt(rangePct, points, i), MoveScale)

buildPayoffCurve(ls, basePrice, rangePct, points) ==
    IF Len(ls) = 0 \/ ~NumberIsFinite(basePrice) \/ basePrice <= 0
    THEN EmptyCurve(basePrice)
    ELSE [basePrice |-> basePrice,
          variations |-> [i \in 1..points |->
                             VariationAt(rangePct, points, i - 1)],
          returns |-> [i \in 1..points |->
                             ToFixed4(SumLegPayoff(ls,
                                 PriceAt(basePrice, rangePct, points, i - 1), 1))]]

-----------------------------------------------------------------------------
(* backtest.ts: interpolation on the curve *)

\* xs[i] of a 0-based array: undefined (Null) outside it
At(xs, i) == IF i >= 0 /\ i < Len(xs) THEN xs[i + 1] ELSE Null

\* the while loop of linearInterpolate: [found, mid, right, reads]
RECURSIVE BinarySearch(_, _, _, _, _)
BinarySearch(x, xs, left, right, rd) ==
    IF left > right
    THEN [found |-> FALSE, mid |-> Null, right |-> right, reads |-> rd]
    ELSE LET mid == (left + right) \div 2
         IN  IF At(xs, mid) = x
             THEN [found |-> TRUE, mid |-> mid, right |-> right,
                   reads |-> rd \cup {mid}]
             ELSE IF At(xs, mid) < x
             THEN BinarySearch(x, xs, mid + 1, right, rd \cup {mid})
             ELSE BinarySearch(x, xs, left, mid - 1, rd \cup {mid})

\* lines 114-131, the search and the segment it ends on: [value, reads].
\* Arithmetic on an undefined element gives NaN.
Interior(x, xs, ys, rd0) ==
    LET s == BinarySearch(x, xs, 0, Len(xs) - 1, rd0)
    IN  IF s.found
        THEN [value |-> At(ys, s.mid), reads |-> s.reads]
        ELSE LET i0 == Max(0, s.right)
                 x0 == At(xs, i0)
                 x1 == At(xs, i0 + 1)
                 y0 == At(ys, i0)
                 y1 == At(ys, i0 + 1)
                 rd == s.reads \cup {i0, i0 + 1}
             IN  IF x1 = x0 THEN [value |-> y0, reads |-> rd]
                 ELSE IF Null \in {x0, x1, y0, y1}
                 THEN [value |-> NaN, reads |-> rd]
                 ELSE [value |-> y0 + RoundDiv((x - x0) * (y1 - y0), x1 - x0),
                       reads |-> rd]

\* the segments continued beyond the first and the last sample
Interpolation_unclamped(x, xs, ys) ==
    IF Len(xs) = 0 \/ Len(xs) # Len(ys) THEN [value |-> 0, reads |-> {}]
    ELSE Interior(x, xs, ys, {})

\* [value, reads]: the value returned and the indices of xs and ys read
Interpolation(x, xs, ys) ==
    IF Len(xs) = 0 \/ Len(xs) # Len(ys) THEN [value |-> 0, reads |-> {}]
    ELSE IF x <= xs[1] THEN [value |-> ys[1], reads |-> {0}]
    ELSE IF x >= xs[Len(xs)]
    THEN [value |-> ys[Len(ys)], reads |-> {0, Len(xs) - 1}]
    ELSE Interior(x, xs, ys, {0, Len(xs) - 1})

linearInterpolate(x, xs, ys) == Interpolation(x, xs, ys).value

-----------------------------------------------------------------------------
(* backtest.ts: the IRR solver *)

NewtonIterations == 60

BisectIterations == 120

InitialRate == 100

LowRate == -999

HighRate == 10000

\* Math.abs(npv) < 1e-7: on the money grid, below one unit
NpvTolerance == 1

\* v / (1 + rate)^k, with d = 1 + rate > 0 on the rate grid
RECURSIVE Discount(_, _, _)
Discount(v, d, k) ==
    IF k = 0 THEN v ELSE Discount(FScale(v, RateScale, d), d, k - 1)

\* sum over t >= k of cashFlows[t] / (1 + rate)^t (t is 0-based)
RECURSIVE NpvFrom(_, _, _)
NpvFrom(cashFlows, d, k) ==
    IF k >= Len(cashFlows) THEN 0
    ELSE FAdd(Discount(cashFlows[k + 1], d, k), NpvFrom(cashFlows, d, k + 1))

\* the closure npv of calculateIrr
npv(cashFlows, rate) ==
    IF rate <= -RateScale THEN PosInf ELSE NpvFrom(cashFlows, RateScale + rate, 0)

\* dNpv: minus the sum over t >= k, t > 0, of
\* t * cashFlows[t] / ((1 + rate)^t * (1 + rate))
RECURSIVE DNpvFrom(_, _, _)
DNpvFrom(cashFlows, d, k) ==
    IF k >= Len(cashFlows) THEN 0
    ELSE IF k = 0 THEN DNpvFrom(cashFlows, d, 1)
    ELSE FSub(DNpvFrom(cashFlows, d, k + 1),
              Discount(FMul(cashFlows[k + 1], k), d, k + 1))

Converged(v) == IsFinite(v) /\ Abs(v) < NpvTolerance

\* rate - npvVal / dNpv, for finite dNpv # 0
NewtonNext(rate, npvVal, dNpv) ==
    LET ratio == FScale(npvVal, RateScale, Abs(dNpv))
    IN  IF dNpv > 0 THEN FSub(rate, ratio) ELSE FAdd(rate, ratio)

\* one turn of the Newton-Raphson loop on s = [rate, i, status]: status is
\* "run" while the loop goes on, "returned" after `return rate` and "left"
\* after a break.  A turn that leaves rate unchanged repeats itself until i
\* reaches the limit.
NewtonStep(cashFlows, s) ==
    IF s.status # "run" THEN s
    ELSE IF s.i >= NewtonIterations THEN [s EXCEPT !.status = "left"]
    ELSE LET npvVal == NpvFrom(cashFlows, RateScale + s.rate, 0)
             dNpv == DNpvFrom(cashFlows, RateScale + s.rate, 0)
             next == NewtonNext(s.rate, npvVal, dNpv)
         IN  IF Converged(npvVal)
             THEN [s EXCEPT !.status = "returned", !.i = @ + 1]
             ELSE IF ~IsFinite(dNpv) \/ dNpv = 0
             THEN [s EXCEPT !.status = "left", !.i = @ + 1]
             ELSE IF ~IsFinite(next) \/ next <= LowRate
             THEN [s EXCEPT !.status = "left", !.i = @ + 1]
             ELSE IF next = s.rate
             THEN [s EXCEPT !.status = "left", !.i = NewtonIterations]
             ELSE [s EXCEPT !.rate = next, !.i = @ + 1]

\* n turns of the loop, taken in two halves
RECURSIVE NewtonTurns(_, _, _)
NewtonTurns(cashFlows, s, n) ==
    IF n = 0 \/ s.status # "run" THEN s
    ELSE IF n = 1 THEN NewtonStep(cashFlows, s)
    ELSE NewtonTurns(cashFlows, NewtonTurns(cashFlows, s, n \div 2),
                     n - n \div 2)

\* the whole loop: the rate held when it ends, whether it returned that
\* rate, and the turns taken
NewtonLoop(cashFlows) ==
    LET s == NewtonTurns(cashFlows,
                         [rate |-> InitialRate, i |-> 0, status |-> "run"],
                         NewtonIterations + 1)
    IN  [converged |-> s.status = "returned", rate |-> s.rate,
         iterations |-> s.i]

\* npvLow * npvX has this sign (NaN if either is NaN)
ProductSign(a, b) ==
    IF a = NaN \/ b = NaN THEN NaN
    ELSE (IF a > 0 THEN 1 ELSE IF a < 0 THEN -1 ELSE 0)
         * (IF b > 0 THEN 1 ELSE IF b < 0 THEN -1 ELSE 0)

Midpoint(low, high) == RoundDiv(low + high, 2)

\* one turn of the bisection loop on s = [low, high, npvLow, i, status,
\* rate].  A turn that leaves low and high unchanged repeats itself until i
\* reaches the limit.
BisectStep(cashFlows, s) ==
    IF s.status # "run" THEN s
    ELSE IF s.i >= BisectIterations
    THEN [s EXCEPT !.status = "left", !.rate = Midpoint(s.low, s.high)]
    ELSE LET mid == Midpoint(s.low, s.high)
             npvMid == npv(cashFlows, mid)
         IN  IF Converged(npvMid)
             THEN [s EXCEPT !.status = "returned", !.rate = mid, !.i = @ + 1]
             ELSE IF FLt0(ProductSign(s.npvLow, npvMid))
             THEN (IF mid = s.high
                   THEN [s EXCEPT !.status = "left", !.rate = mid,
                                  !.i = BisectIterations]
                   ELSE [s EXCEPT !.high = mid, !.i = @ + 1])
             ELSE (IF mid = s.low
                   THEN [s EXCEPT !.status = "left", !.rate = mid,
                                  !.npvLow = npvMid, !.i = BisectIterations]
                   ELSE [s EXCEPT !.low = mid, !.npvLow = npvMid, !.i = @ + 1])

RECURSIVE BisectTurns(_, _, _)
BisectTurns(cashFlows, s, n) ==
    IF n = 0 \/ s.status # "run" THEN s
    ELSE IF n = 1 THEN BisectStep(cashFlows, s)
    ELSE BisectTurns(cashFlows, BisectTurns(cashFlows, s, n \div 2),
                     n - n \div 2)

\* the whole loop and the final `return (low + high) / 2`
BisectLoop(cashFlows, npvLow) ==
    LET s == BisectTurns(cashFlows,
                         [low |-> LowRate, high |-> HighRate, npvLow |-> npvLow,
                          i |-> 0, status |-> "run", rate |-> Null],
                         BisectIterations + 1)
    IN  [rate |-> s.rate, iterations |-> s.i]

\* the test of line 167 with the comparison of the signs left out
NoBracket_finite(npvLow, npvHigh) == ~IsFinite(npvLow) \/ ~IsFinite(npvHigh)

\* line 167
NoBracket(npvLow, npvHigh) ==
    \/ ~IsFinite(npvLow)
    \/ ~IsFinite(npvHigh)
    \/ FGt0(ProductSign(npvLow, npvHigh))

\* calculateIrr: rate is Null for null; the other fields record the run
calculateIrr(cashFlows) ==
    IF Len(cashFlows) < 2
    THEN [rate |-> Null, newton |-> 0, bisect |-> 0, newtonConverged |-> FALSE,
          bracketed |-> FALSE]
    ELSE LET nr == NewtonLoop(cashFlows)
             npvLow == npv(cashFlows, LowRate)
             npvHigh == npv(cashFlows, HighRate)
             noBracket == NoBracket(npvLow, npvHigh)
             bs == BisectLoop(cashFlows, npvLow)
         IN  IF nr.converged
             THEN [rate |-> nr.rate, newton |-> nr.iterations, bisect |-> 0,
                   newtonConverged |-> TRUE, bracketed |-> FALSE]
             ELSE IF noBracket
             THEN [rate |-> Null, newton |-> nr.iterations, bisect |-> 0,
                   newtonConverged |-> FALSE, bracketed |-> FALSE]
             ELSE [rate |-> bs.rate, newton |-> nr.iterations,
                   bisect |-> bs.iterations, newtonConverged |-> FALSE,
                   bracketed |-> TRUE]

periodsPerMonth(freq) ==
    IF freq = "WEEKLY" THEN WEEKLY_PERIODS_PER_MONTH ELSE 100

\* (Math.pow(1 + irr, 4.33) - 1) * 100 on the rate grid; the fractional
\* power is taken as (1 + irr)^4 * (1 + 0.33 * irr)
CompoundPerMonthPct(irr) ==
    LET b == RateScale + irr
        p2 == FScale(b, b, RateScale)
        p4 == FScale(p2, p2, RateScale)
        frac == FScale(p4, Abs(irr), RateScale)
        part == FScale(frac, WEEKLY_PERIODS_PER_MONTH % 100, 100)
        p == IF irr >= 0 THEN FAdd(p4, part) ELSE FSub(p4, part)
    IN  FMul(FSub(p, RateScale), 100)

\* the rate reported as a fraction instead of a percentage
MonthlyIrrPct_fraction(irr, freq) ==
    IF irr = Null THEN 0
    ELSE IF freq = "MONTHLY" THEN irr
    ELSE CompoundPerMonthPct(irr) \div 100

\* monthlyIrr from the solver's answer (lines 413 and 423)
MonthlyIrrPct(irr, freq) ==
    IF irr = Null THEN 0
    ELSE IF freq = "MONTHLY" THEN irr * 100
    ELSE CompoundPerMonthPct(irr)

\* a flow exchanged in every period, weekly as monthly
ShouldExchange_always(freq, k) == TRUE

\* ((i + 1) % perMonth) < 1 for period k = i + 1.  The double 4.33 lies a
\* little above 433/100, so a k with 100 * k a multiple of 433 falls just
\* short of the multiple: its remainder is just under 4.33, and the
\* remainder of the k after it is just under 1 (the remainder of k = 1 is 1)
ShouldExchange(freq, k) ==
    LET r == (k * 100) % periodsPerMonth(freq)
        whole == (k * 100) \div periodsPerMonth(freq)
    IN  \/ freq = "MONTHLY"
        \/ r > 0 /\ r < 100
        \/ r = 100 /\ whole >= 1

\* the flow pushed for period k (lines 409 and 418-419)
PeriodFlow(freq, netMonthlyFlow, k) ==
    IF ShouldExchange(freq, k) THEN netMonthlyFlow ELSE 0

\* the cash-flow vector given to calculateIrr
CashFlows(freq, capital, periods, netMonthlyFlow, finalCapital) ==
    LET flows == [j \in 1..(periods + 1) |->
                     IF j = 1 THEN -capital
                     ELSE PeriodFlow(freq, netMonthlyFlow, j - 1)]
        n == Len(flows)
    IN  [flows EXCEPT ![n] = flows[n] + finalCapital]

-----------------------------------------------------------------------------
(* backtest.ts: runBacktest *)

LossStepSix == 6

LossStepTen == 10

LossPctSix == 2

LossPctTen == 9

LossPctCap == 99

BubbleBase == 4

BubbleMax == 16

\* the base capital taken as it comes
SafeCapital_raw(capital) == capital

SafeCapital(capital) == IF capital > 0 THEN capital ELSE 0

emptyMetrics(capital) ==
    [initialCapital |-> capital,
     finalCapitalNoWithdrawal |-> capital,
     finalCapitalWithWithdrawal |-> capital,
     totalProfitPct |-> 0,
     avgMonthlyProfit |-> 0,
     monthlyEquivalentRate |-> 0,
     profitWithWithdrawalPct |-> 0,
     monthlyRateWithWithdrawal |-> 0,
     monthlyIrr |-> 0,
     wins |-> 0,
     losses |-> 0]

EmptyResult(capital) ==
    [rows |-> <<>>,
     chart |-> [points |-> <<>>, equity |-> <<>>],
     metrics |-> emptyMetrics(capital)]

\* the early return of lines 226-232
Degenerate(hist, curve, capital) ==
    Len(hist) = 0 \/ Len(curve.variations) = 0 \/ SafeCapital(capital) <= 0

\* monthly amount to the amount of one period (lines 246-252)
PeriodAmount(freq, monthly) ==
    IF freq = "WEEKLY" THEN RoundDiv(monthly * 100, WEEKLY_PERIODS_PER_MONTH)
    ELSE monthly

\* the loss clock held outside the call, so that it outlives it
StartLocals_kept(capital) ==
    [rows |-> <<>>, chartPoints |-> <<>>, equityPoints |-> <<>>,
     capitalWith |-> capital, capitalWithout |-> capital,
     firstPeriod |-> TRUE,
     lossBaseYear |-> lossBaseYear, lossBaseMonth |-> lossBaseMonth,
     lossMonths |-> lossMonths,
     wins |-> 0, losses |-> 0, strategyReturnBrl |-> 0, reads |-> {}]

\* the locals as they stand after lines 234-255
StartLocals(capital) ==
    [rows |-> <<>>, chartPoints |-> <<>>, equityPoints |-> <<>>,
     capitalWith |-> capital, capitalWithout |-> capital,
     firstPeriod |-> TRUE,
     lossBaseYear |-> Null, lossBaseMonth |-> Null, lossMonths |-> {},
     wins |-> 0, losses |-> 0, strategyReturnBrl |-> 0, reads |-> {}]

\* lines 261-264
SetLossClock(st, date, losing) ==
    IF losing /\ st.lossBaseYear = Null
    THEN [st EXCEPT !.lossBaseYear = getFullYear(date),
                    !.lossBaseMonth = getMonth(date) + 1]
    ELSE st

NoReturn(point) == point.returnPct = Null \/ ~IsFinite(point.returnPct)

\* lines 268-289: the placeholder row and its two chart points
Placeholder(st, point) ==
         [st EXCEPT
            !.rows = Append(@, [time |-> point.time, assetReturn |-> 0,
                                strategyReturn |-> 0, profit |-> 0,
                                withdrawal |-> 0, investment |-> 0,
                                capital |-> st.capitalWith,
                                lossEvent |-> FALSE]),
            !.chartPoints = Append(@, [time |-> getTime(point.time),
                                       assetReturn |-> 0, strategyReturn |-> 0,
                                       size |-> BubbleBase * MoveScale]),
            !.equityPoints = Append(@, [time |-> getTime(point.time),
                                        capitalWith |-> st.capitalWith,
                                        capitalWithout |-> st.capitalWithout]),
            !.firstPeriod = FALSE]

\* a placeholder for every point with no return
SkipPoint_always(st, point) == Placeholder(st, point)

\* lines 266-292: a point with no return
SkipPoint(st, point) ==
    IF st.firstPeriod THEN Placeholder(st, point) ELSE st

\* capital * (1 + strategyReturnBrl / safeCapital) (lines 295-301)
Compound(prev, brl, capital) ==
    IF capital > 0 THEN RoundDiv(prev * (capital + brl), capital) ELSE prev

\* the return added to the no-flow track instead of compounded on it
WithoutAfterReturn_added(prevWithout, brl, capital) == prevWithout + brl

\* line 300
WithoutAfterReturn(prevWithout, brl, capital) == Compound(prevWithout, brl, capital)

\* the return added to the track instead of compounded on it
WithAfterReturn_added(prevWith, brl, capital) == prevWith + brl

\* line 301
WithAfterReturn(prevWith, brl, capital) == Compound(prevWith, brl, capital)

\* the withdrawal added and the contribution taken away
ApplyFlows_swapped(capital, pWithdrawal, pInvestment) ==
    capital + pWithdrawal - pInvestment

\* line 326
ApplyFlows(capital, pWithdrawal, pInvestment) == capital - pWithdrawal + pInvestment

monthsElapsedOf(st, date) ==
    (getFullYear(date) - st.lossBaseYear) * 12
    + (getMonth(date) + 1 - st.lossBaseMonth) + 1

\* the haircut with no memory of the month counts that triggered
LossPct_again(st, date, losing) ==
    IF losing /\ st.lossBaseYear # Null /\ st.lossBaseMonth # Null
    THEN LET monthsElapsed == monthsElapsedOf(st, date)
             six == IF monthsElapsed % LossStepSix = 0 THEN LossPctSix ELSE 0
             ten == IF monthsElapsed % LossStepTen = 0 THEN LossPctTen ELSE 0
         IN  IF monthsElapsed > 0 /\ six + ten > 0
             THEN Min(six + ten, LossPctCap)
             ELSE 0
    ELSE 0

\* lines 303-316: the haircut of the period in hundredths, 0 if none
LossPct(st, date, losing) ==
    IF losing /\ st.lossBaseYear # Null /\ st.lossBaseMonth # Null
    THEN LET monthsElapsed == monthsElapsedOf(st, date)
             six == IF monthsElapsed % LossStepSix = 0 THEN LossPctSix ELSE 0
             ten == IF monthsElapsed % LossStepTen = 0 THEN LossPctTen ELSE 0
         IN  IF monthsElapsed > 0 /\ monthsElapsed \notin st.lossMonths
                /\ six + ten > 0
             THEN Min(six + ten, LossPctCap)
             ELSE 0
    ELSE 0

\* capital *= 1 - lossPct (lines 318-321)
Haircut(capital, lossPct) ==
    IF lossPct > 0 THEN RoundDiv(capital * (100 - lossPct), 100) ELSE capital

\* the size of the return without its sign
EffectiveReturn_abs(profitWithout, prevWithout) ==
    IF prevWithout # 0 THEN Abs(RoundDiv(profitWithout * MoveScale, prevWithout))
    ELSE 0

\* line 328: profitWithout / prevWithout, in move units
EffectiveReturn(profitWithout, prevWithout) ==
    IF prevWithout # 0 THEN RoundDiv(profitWithout * MoveScale, prevWithout)
    ELSE 0

\* Math.min(16, 4 + Math.abs(effectiveReturn * 100) * 0.6), in move units
bubbleSize(effectiveReturn) ==
    Min(BubbleMax * MoveScale, BubbleBase * MoveScale + Abs(effectiveReturn) * 60)

\* lines 294-358: a period with a return
SimulatePoint(st, point, curve, capital, losing, pWithdrawal, pInvestment) ==
    LET date == point.time
        assetReturn == point.returnPct
        interp == Interpolation(assetReturn, curve.variations, curve.returns)
        brl == interp.value
        prevWithout == st.capitalWithout
        prevWith == st.capitalWith
        lossPct == LossPct(st, date, losing)
        lossEvent == lossPct > 0
        without1 == Haircut(WithoutAfterReturn(prevWithout, brl, capital), lossPct)
        with1 == Haircut(WithAfterReturn(prevWith, brl, capital), lossPct)
        profitWithout == without1 - prevWithout
        with2 == ApplyFlows(with1, pWithdrawal, pInvestment)
        effectiveReturn == EffectiveReturn(profitWithout, prevWithout)
    IN  [st EXCEPT
            !.capitalWithout = without1,
            !.capitalWith = with2,
            !.lossMonths = IF lossEvent
                           THEN @ \cup {monthsElapsedOf(st, date)} ELSE @,
            !.wins = IF effectiveReturn > 0 THEN @ + 1 ELSE @,
            !.losses = IF effectiveReturn < 0 THEN @ + 1 ELSE @,
            !.rows = Append(@, [time |-> date, assetReturn |-> assetReturn,
                                strategyReturn |-> effectiveReturn,
                                profit |-> profitWithout,
                                withdrawal |-> pWithdrawal,
                                investment |-> pInvestment,
                                capital |-> with2,
                                lossEvent |-> lossEvent]),
            !.chartPoints = Append(@, [time |-> getTime(date),
                                       assetReturn |-> assetReturn,
                                       strategyReturn |-> effectiveReturn,
                                       size |-> bubbleSize(effectiveReturn)]),
            !.equityPoints = Append(@, [time |-> getTime(date),
                                        capitalWith |-> with2,
                                        capitalWithout |-> without1]),
            !.firstPeriod = FALSE,
            !.strategyReturnBrl = brl,
            !.reads = interp.reads]

\* the body of history.forEach for one point
ProcessPoint(st, point, curve, capital, losing, pWithdrawal, pInvestment) ==
    LET st1 == SetLossClock(st, point.time, losing)
    IN  IF NoReturn(point) THEN SkipPoint(st1, point)
        ELSE SimulatePoint(st1, point, curve, capital, losing,
                           pWithdrawal, pInvestment)

-----------------------------------------------------------------------------
(* backtest.ts: the summary after the loop (lines 361-446).  The two        *)
(* geometric rates, monthlyEquivalentRate and monthlyRateWithWithdrawal,    *)
(* are n-th roots and are left out of the result of a run that simulated.   *)

Last(q) == q[Len(q)]

\* the final capital read from the track that takes the cash flows
FinalCapitalNoWithdrawal_with(equity, capital) ==
    IF Len(equity) > 0 THEN Last(equity).capitalWith ELSE capital

FinalCapitalNoWithdrawal(equity, capital) ==
    IF Len(equity) > 0 THEN Last(equity).capitalWithout ELSE capital

FinalCapitalWithWithdrawal(equity, capital) ==
    IF Len(equity) > 0 THEN Last(equity).capitalWith ELSE capital

NumPeriods(rs) == Max(0, Len(rs) - 1)

\* (x / capital) * 100, in thousandths of a percent
PctOf(x, capital) == IF capital > 0 THEN RoundDiv(x * 100 * RateScale, capital) ELSE 0

\* totalProfit / (daysDiff / 30.44)
AvgMonthlyProfit(rs, totalProfit) ==
    LET daysDiff == IF Len(rs) > 1
                    THEN getTime(Last(rs).time) - getTime(rs[1].time) ELSE 0
    IN  IF daysDiff > 0 THEN RoundDiv(totalProfit * 3044, daysDiff * 100) ELSE 0

\* the vector given to calculateIrr, <<>> when it is not called (line 406)
IrrInput(st, capital, freq, mWithdrawal, mInvestment) ==
    IF NumPeriods(st.rows) > 0 /\ capital > 0
    THEN CashFlows(freq, capital, NumPeriods(st.rows), mWithdrawal - mInvestment,
                   FinalCapitalWithWithdrawal(st.equityPoints, capital))
    ELSE <<>>

NotCalled ==
    [rate |-> Null, newton |-> 0, bisect |-> 0, newtonConverged |-> FALSE,
     bracketed |-> FALSE]

IrrOutput(flows) == IF Len(flows) = 0 THEN NotCalled ELSE calculateIrr(flows)

\* irr is what calculateIrr returned for the run's vector (NotCalled if it
\* was not called)
MetricsOf(st, capital, freq, irr) ==
    LET finalNo == FinalCapitalNoWithdrawal(st.equityPoints, capital)
        finalWith == FinalCapitalWithWithdrawal(st.equityPoints, capital)
    IN  [initialCapital |-> capital,
         finalCapitalNoWithdrawal |-> finalNo,
         finalCapitalWithWithdrawal |-> finalWith,
         totalProfitPct |-> PctOf(finalNo - capital, capital),
         avgMonthlyProfit |-> AvgMonthlyProfit(st.rows, finalNo - capital),
         profitWithWithdrawalPct |-> PctOf(finalWith - capital, capital),
         monthlyIrr |-> MonthlyIrrPct(irr.rate, freq),
         wins |-> st.wins,
         losses |-> st.losses]

ResultOf(st, capital, freq, irr) ==
    [rows |-> st.rows,
     chart |-> [points |-> st.chartPoints, equity |-> st.equityPoints],
     metrics |-> MetricsOf(st, capital, freq, irr)]

-----------------------------------------------------------------------------
(* strategyMath.ts: the curve and the statistics of the strategy panel.      *)
(* Money is here in units of 0.00001 of the currency (StatScale per 1.0), so  *)
(* that the 10000 of the Unlimited test is a number of the model, and         *)
(* toFixed(4) rounds to a multiple of StatFixed4Unit.  Percentages are in     *)
(* units of 0.0001 % (PctScale per 1 %), the grid of movePct.toFixed(4).      *)

StatScale == 100000

StatFixed4Unit == 10

PctScale == 10000

PAYOFF_RANGE_PCT == 40 * PctScale

PAYOFF_POINTS == 320

AbsolutePoints == 320

\* the string 'Unlimited' in the place of a number
Unlimited == Null + 1

\* last > 10000, first < -10000
UnlimitedThreshold == 10000 * StatScale

\* Number(x.toFixed(4)) of an amount of money
StatToFixed4(x) == RoundDiv(x, StatFixed4Unit) * StatFixed4Unit

\* backtest.ts lines 59-65
RECURSIVE calculateStrategyCost(_)
calculateStrategyCost(ls) ==
    IF Len(ls) = 0 THEN 0
    ELSE LET leg == ls[Len(ls)]
             multiplier == IF leg.contractSize = Null \/ leg.contractSize = 0
                           THEN DEFAULT_CONTRACT_SIZE ELSE leg.contractSize
             legPremium == leg.premium * leg.quantity * multiplier
         IN  calculateStrategyCost(SubSeq(ls, 1, Len(ls) - 1))
             + (IF leg.side = "SELL" THEN legPremium ELSE -legPremium)

\* movePct = startPct + step * i with step = span / PAYOFF_POINTS
MovePctAt(i) ==
    -PAYOFF_RANGE_PCT + RoundDiv(2 * PAYOFF_RANGE_PCT * i, PAYOFF_POINTS)

\* price = currentPrice * (1 + movePct / 100)
PriceAtMove(price, movePct) ==
    MulDiv(price, 100 * PctScale + movePct, 100 * PctScale)

\* strategyMath.ts lines 33-53: the curve over percentage moves
generatePayoffData(ls, price) ==
    IF Len(ls) = 0 \/ ~NumberIsFinite(price) \/ price <= 0
    THEN <<>>
    ELSE [i \in 1..(PAYOFF_POINTS + 1) |->
            [movePct |-> MovePctAt(i - 1),
             profit |-> StatToFixed4(SumLegPayoff(ls,
                            PriceAtMove(price, MovePctAt(i - 1)), 1))]]

\* the strikes of the options, the entry prices of the underlying legs and
\* the price shown, those that are finite and positive
ReferencePoints(ls, price) ==
    LET optionStrikes ==
            {ls[k].strike : k \in {j \in 1..Len(ls) :
                ls[j].instrument = "OPTION" /\ NumberIsFinite(ls[j].strike)}}
        underlyingEntries ==
            {ls[k].premium : k \in {j \in 1..Len(ls) :
                ls[j].instrument = "UNDERLYING"
                /\ NumberIsFinite(ls[j].premium)}}
    IN  {v \in {price} \cup optionStrikes \cup underlyingEntries :
            NumberIsFinite(v) /\ v > 0}

SetMin(S) == CHOOSE m \in S : \A v \in S : m <= v

SetMax(S) == CHOOSE m \in S : \A v \in S : m >= v

\* backtest.ts lines 95-107
deriveBaseCapital(cost, payoffReturns) ==
    LET costAbs == Abs(cost)
        minPayoff == SetMin({payoffReturns[i] : i \in 1..Len(payoffReturns)})
        risk == Abs(Min(0, minPayoff))
    IN  IF Len(payoffReturns) = 0 THEN costAbs
        ELSE IF cost > 0 THEN (IF risk > 0 THEN risk ELSE costAbs)
        ELSE IF costAbs > 0 THEN costAbs
        ELSE Abs(minPayoff)

\* the sweep started at minStrike - buffer, below zero where that is
generatePayoffDataAbsolute_unclamped(ls, price) ==
    IF Len(ls) = 0 THEN <<>>
    ELSE IF ReferencePoints(ls, price) = {} THEN <<>>
    ELSE LET minStrike == SetMin(ReferencePoints(ls, price))
             maxStrike == SetMax(ReferencePoints(ls, price))
             range == maxStrike - minStrike
             half == RoundDiv(range, 2)
             fifth == RoundDiv(maxStrike, 5)
             buffer == IF half # 0 THEN half
                       ELSE IF fifth # 0 THEN fifth ELSE StatScale
             start == minStrike - buffer
             end == maxStrike + buffer
             span == end - start
             p(i) == start + MulDiv(span, i, AbsolutePoints)
         IN  [i \in 1..(AbsolutePoints + 1) |->
                [price |-> StatToFixed4(p(i - 1)),
                 profit |-> StatToFixed4(SumLegPayoff(ls, p(i - 1), 1))]]

\* the other generatePayoffData of the sources (part_004 lines 1089-1129):
\* the curve over absolute prices around the reference points
generatePayoffDataAbsolute(ls, price) ==
    IF Len(ls) = 0 THEN <<>>
    ELSE IF ReferencePoints(ls, price) = {} THEN <<>>
    ELSE LET minStrike == SetMin(ReferencePoints(ls, price))
             maxStrike == SetMax(ReferencePoints(ls, price))
             range == maxStrike - minStrike
             half == RoundDiv(range, 2)
             fifth == RoundDiv(maxStrike, 5)
             buffer == IF half # 0 THEN half
                       ELSE IF fifth # 0 THEN fifth ELSE StatScale
             start == Max(0, minStrike - buffer)
             end == maxStrike + buffer
             span == end - start
             p(i) == start + MulDiv(span, i, AbsolutePoints)
         IN  [i \in 1..(AbsolutePoints + 1) |->
                [price |-> StatToFixed4(p(i - 1)),
                 profit |-> StatToFixed4(SumLegPayoff(ls, p(i - 1), 1))]]

\* strategyMath.ts lines 60-71
EmptyStats ==
    [maxProfit |-> 0, maxLoss |-> 0, breakEvens |-> <<>>, netPremium |-> 0,
     capitalAtRisk |-> Null, maxProfitPct |-> Null, maxLossPct |-> Null,
     spotPnl |-> 0]

\* the values of a set in ascending order
RECURSIVE SortedSeq(_)
SortedSeq(S) ==
    IF S = {} THEN <<>>
    ELSE <<SetMin(S)>> \o SortedSeq(S \ {SetMin(S)})

\* lines 92: the curve crosses or leaves zero between two samples
Crosses(left, right) ==
    \/ left.profit <= 0 /\ right.profit > 0
    \/ left.profit >= 0 /\ right.profit < 0

\* the crossing reported at the sample left of it, with no interpolation
BreakEvenOf_left(left, right) == left.movePct

\* lines 93-96: the move at which the segment is at zero, to four decimals
BreakEvenOf(left, right) ==
    LET delta == right.profit - left.profit
    IN  IF delta = 0 THEN left.movePct
        ELSE left.movePct
             + MulDiv(-left.profit, right.movePct - left.movePct, delta)

\* lines 87-104
BreakEvens(data) ==
    SortedSeq({BreakEvenOf(data[i], data[i + 1]) :
                  i \in {j \in 1..(Len(data) - 1) :
                            Crosses(data[j], data[j + 1])}})

\* lines 106-110
RECURSIVE NetPremium(_)
NetPremium(ls) ==
    IF Len(ls) = 0 THEN 0
    ELSE LET leg == ls[Len(ls)]
             multiplier == IF leg.contractSize = Null \/ leg.contractSize = 0
                           THEN DEFAULT_CONTRACT_SIZE ELSE leg.contractSize
             legPremium == leg.premium * leg.quantity * multiplier
         IN  NetPremium(SubSeq(ls, 1, Len(ls) - 1))
             + (IF leg.side = "SELL" THEN legPremium ELSE -legPremium)

\* the spot profit with the first leg left out
SpotPnl_rest(ls, price) == SumLegPayoff(ls, price, 2)

\* line 112
SpotPnl(ls, price) == SumLegPayoff(ls, price, 1)

\* a ratio as a percentage (x / y) * 100, on the percentage grid
PctRatio(x, y) == MulDiv(x, 100 * PctScale, y)

\* the right edge above the threshold, whatever its slope
IsMaxProfitUnlimited_level(rightSlope, last) == last > UnlimitedThreshold

\* line 84
IsMaxProfitUnlimited(rightSlope, last) ==
    rightSlope > 0 /\ last > UnlimitedThreshold

\* line 85
IsMaxLossUnlimited(leftSlope, first, rightSlope, last) ==
    \/ leftSlope > 0 /\ first < -UnlimitedThreshold
    \/ rightSlope < 0 /\ last < -UnlimitedThreshold

\* the greatest loss taken for the capital at risk, a net debit or not
CapitalAtRisk_loss(netPremium, maxLoss) ==
    IF maxLoss # Unlimited THEN maxLoss ELSE Null

\* lines 117-122
CapitalAtRisk(netPremium, maxLoss) ==
    IF netPremium < 0 THEN Abs(netPremium)
    ELSE IF maxLoss # Unlimited THEN maxLoss
    ELSE Null

\* strategyMath.ts lines 55-144
calculateStrategyStats(ls, data, price) ==
    IF Len(data) = 0 THEN EmptyStats
    ELSE LET profits == {data[i].profit : i \in 1..Len(data)}
             minProfit == SetMin(profits)
             maxProfitVal == SetMax(profits)
             last == data[Len(data)].profit
             prev == IF Len(data) >= 2 THEN data[Len(data) - 1].profit ELSE last
             first == data[1].profit
             second == IF Len(data) >= 2 THEN data[2].profit ELSE first
             leftSlope == second - first
             rightSlope == last - prev
             isMaxProfitUnlimited == IsMaxProfitUnlimited(rightSlope, last)
             isMaxLossUnlimited ==
                 IsMaxLossUnlimited(leftSlope, first, rightSlope, last)
             netPremium == NetPremium(ls)
             maxProfit == IF isMaxProfitUnlimited THEN Unlimited
                          ELSE maxProfitVal
             maxLoss == IF isMaxLossUnlimited THEN Unlimited
                        ELSE Abs(minProfit)
             capitalAtRisk == CapitalAtRisk(netPremium, maxLoss)
             usable == capitalAtRisk # Null /\ capitalAtRisk > 0
         IN  [maxProfit |-> maxProfit,
              maxLoss |-> maxLoss,
              breakEvens |-> BreakEvens(data),
              netPremium |-> netPremium,
              capitalAtRisk |-> capitalAtRisk,
              maxProfitPct |-> IF maxProfit # Unlimited /\ usable
                               THEN PctRatio(maxProfit, capitalAtRisk)
                               ELSE Null,
              maxLossPct |-> IF maxLoss # Unlimited /\ usable
                             THEN PctRatio(-maxLoss, capitalAtRisk)
                             ELSE Null,
              spotPnl |-> SpotPnl(ls, price)]

-----------------------------------------------------------------------------
(* The inputs the model draws *)

StartDate == [year |-> 2020, month |-> 10, day |-> 1]

\* the next sample of a series: a week later in the same month, or five
\* months later
NextDates(date) ==
    (IF date.day + 7 <= 28
     THEN {[date EXCEPT !.day = @ + 7]} ELSE {})
    \cup {LET m == date.month - 1 + 5
          IN  [year |-> date.year + m \div 12, month |-> (m % 12) + 1,
               day |-> date.day]}

Returns == {Null, -50000, 100000}

\* the series of exactly n samples with returns drawn from rets
RECURSIVE HistoriesOfLen(_, _)
HistoriesOfLen(n, rets) ==
    IF n = 0 THEN {<<>>}
    ELSE IF n = 1 THEN {<<[time |-> StartDate, returnPct |-> r]>> : r \in rets}
    ELSE UNION {{Append(h, [time |-> d, returnPct |-> r]) :
                    d \in NextDates(Last(h).time), r \in rets} :
                h \in HistoriesOfLen(n - 1, rets)}

Histories(rets) == UNION {HistoriesOfLen(n, rets) : n \in 0..MaxHist}

CurveA ==
    [basePrice |-> 1000,
     variations |-> <<-100000, -50000, 100000>>,
     returns |-> <<-100, 0, 100>>]

CurveB ==
    [basePrice |-> 1000,
     variations |-> <<-50000, 0, 150000>>,
     returns |-> <<200, 50, -300>>]

CurveC ==
    [basePrice |-> 1000,
     variations |-> <<-20000, 50000>>,
     returns |-> <<-40, 70>>]

Curves == {CurveA, CurveB, CurveC}

Capitals == {1000}

\* one sample, with a return
OnePoint == <<[time |-> StartDate, returnPct |-> 100000]>>

\* the inputs of a simulation: every series with every curve and capital
Simulated ==
    {[history |-> h, payoff |-> c, capital |-> k] :
        h \in Histories(Returns) \ {<<>>}, c \in Curves, k \in Capitals}

\* inputs with nothing to simulate: no series, no curve, no capital
Empties ==
    {[history |-> <<>>, payoff |-> CurveA, capital |-> 1000],
     [history |-> OnePoint, payoff |-> EmptyCurve(1000), capital |-> 1000],
     [history |-> OnePoint, payoff |-> CurveA, capital |-> 0],
     [history |-> OnePoint, payoff |-> CurveA, capital |-> -1000]}

CashFlowPairs == {<<0, 0>>, <<50, 20>>}

Frequencies == {"WEEKLY", "MONTHLY"}

-----------------------------------------------------------------------------
(* The state machine: a caller that calls runBacktest again and again with  *)
(* the same values                                                          *)

Locals ==
    [rows |-> rows, chartPoints |-> chartPoints, equityPoints |-> equityPoints,
     capitalWith |-> capitalWith, capitalWithout |-> capitalWithout,
     firstPeriod |-> firstPeriod,
     lossBaseYear |-> lossBaseYear, lossBaseMonth |-> lossBaseMonth,
     lossMonths |-> lossMonths,
     wins |-> wins, losses |-> losses,
     strategyReturnBrl |-> strategyReturnBrl, reads |-> reads]

SetLocals(st) ==
    /\ rows' = st.rows
    /\ chartPoints' = st.chartPoints
    /\ equityPoints' = st.equityPoints
    /\ capitalWith' = st.capitalWith
    /\ capitalWithout' = st.capitalWithout
    /\ firstPeriod' = st.firstPeriod
    /\ lossBaseYear' = st.lossBaseYear
    /\ lossBaseMonth' = st.lossBaseMonth
    /\ lossMonths' = st.lossMonths
    /\ wins' = st.wins
    /\ losses' = st.losses
    /\ strategyReturnBrl' = st.strategyReturnBrl
    /\ reads' = st.reads

NoResult == EmptyResult(0)

\* nothing has run yet
InitRun ==
    /\ pc = "idle"
    /\ idx = 0
    /\ safeCapital = 0
    /\ rows = <<>>
    /\ chartPoints = <<>>
    /\ equityPoints = <<>>
    /\ capitalWith = 0
    /\ capitalWithout = 0
    /\ firstPeriod = TRUE
    /\ lossBaseYear = Null
    /\ lossBaseMonth = Null
    /\ lossMonths = {}
    /\ periodWithdrawal = 0
    /\ periodInvestment = 0
    /\ wins = 0
    /\ losses = 0
    /\ strategyReturnBrl = 0
    /\ reads = {}
    /\ result = NoResult
    /\ irrOut = NotCalled
    /\ ref = StartLocals(0)
    /\ calledBefore = FALSE
    /\ prevResult = NoResult
    /\ given = [history |-> history, payoff |-> payoff]
    /\ priceData = <<>>
    /\ stats = EmptyStats
    /\ legPayoff = 0

\* and the panel has drawn no curve and priced no strategy
InitRest ==
    /\ InitRun
    /\ payoffData = <<>>
    /\ strategyCost = 0

Init ==
    /\ currentPrice = 0
    /\ numPeriods = 0
    /\ finalCapitalWithWithdrawal = 0
    /\ \E inp \in Simulated \cup Empties :
          /\ history = inp.history
          /\ payoff = inp.payoff
          /\ baseCapital = inp.capital
    /\ legs = <<>>
    /\ irrIn = <<>>
    /\ \E cf \in CashFlowPairs :
          monthlyWithdrawal = cf[1] /\ monthlyInvestment = cf[2]
    /\ applyLosses \in BOOLEAN
    /\ frequency \in Frequencies
    /\ InitRest

\* lines 210-232: the call returns the empty result
CallEmpty ==
    /\ pc = "idle"
    /\ Degenerate(history, payoff, baseCapital)
    /\ pc' = "done"
    /\ safeCapital' = SafeCapital(baseCapital)
    /\ result' = EmptyResult(SafeCapital(baseCapital))
    /\ irrIn' = <<>>
    /\ irrOut' = NotCalled
    /\ UNCHANGED <<idx, rows, chartPoints, equityPoints, capitalWith,
                   capitalWithout, firstPeriod, lossBaseYear, lossBaseMonth,
                   lossMonths, periodWithdrawal, periodInvestment, wins, losses,
                   strategyReturnBrl, reads, calledBefore, prevResult, ref>>
    /\ UNCHANGED inputVars
    /\ UNCHANGED summaryVars
    /\ UNCHANGED strategyVars

\* lines 210-255: the call sets up its locals
CallStart ==
    /\ pc = "idle"
    /\ ~Degenerate(history, payoff, baseCapital)
    /\ pc' = "loop"
    /\ idx' = 1
    /\ safeCapital' = SafeCapital(baseCapital)
    /\ SetLocals(StartLocals(SafeCapital(baseCapital)))
    /\ periodWithdrawal' = PeriodAmount(frequency, monthlyWithdrawal)
    /\ periodInvestment' = PeriodAmount(frequency, monthlyInvestment)
    /\ ref' = StartLocals(SafeCapital(baseCapital))
    /\ UNCHANGED <<result, irrIn, irrOut, calledBefore, prevResult>>
    /\ UNCHANGED inputVars
    /\ UNCHANGED summaryVars
    /\ UNCHANGED strategyVars

\* one turn of history.forEach, for the run and for the run beside it
LoopStep(point) ==
    /\ SetLocals(ProcessPoint(Locals, point, payoff, safeCapital, applyLosses,
                              periodWithdrawal, periodInvestment))
    /\ ref' = ProcessPoint(ref, point, payoff, safeCapital, applyLosses, 0, 0)
    /\ idx' = idx + 1
    /\ UNCHANGED <<pc, safeCapital, periodWithdrawal, periodInvestment, result,
                   irrIn, irrOut, calledBefore, prevResult>>
    /\ UNCHANGED inputVars
    /\ UNCHANGED summaryVars
    /\ UNCHANGED strategyVars

\* lines 266-291, first period: the placeholder row
PlaceholderRow ==
    /\ pc = "loop"
    /\ idx <= Len(history)
    /\ NoReturn(history[idx])
    /\ firstPeriod
    /\ LoopStep(history[idx])

\* lines 266-291, later: nothing is emitted
SkipLater ==
    /\ pc = "loop"
    /\ idx <= Len(history)
    /\ NoReturn(history[idx])
    /\ ~firstPeriod
    /\ LoopStep(history[idx])

\* lines 294-358
SimulatePeriod ==
    /\ pc = "loop"
    /\ idx <= Len(history)
    /\ ~NoReturn(history[idx])
    /\ LoopStep(history[idx])

\* lines 361-446
Finish ==
    /\ pc = "loop"
    /\ idx > Len(history)
    /\ pc' = "done"
    /\ irrIn' = IrrInput(Locals, safeCapital, frequency, monthlyWithdrawal,
                         monthlyInvestment)
    /\ irrOut' = IrrOutput(irrIn')
    /\ result' = ResultOf(Locals, safeCapital, frequency, irrOut')
    /\ numPeriods' = NumPeriods(rows)
    /\ finalCapitalWithWithdrawal' =
          FinalCapitalWithWithdrawal(equityPoints, safeCapital)
    /\ UNCHANGED <<idx, calledBefore, prevResult, periodWithdrawal, periodInvestment,
                   safeCapital, ref>>
    /\ UNCHANGED localVars
    /\ UNCHANGED inputVars
    /\ UNCHANGED strategyVars

\* the caller takes the result; it may call again with the same values
Return ==
    /\ pc = "done"
    /\ pc' = "idle"
    /\ prevResult' = result
    /\ calledBefore' = TRUE
    /\ UNCHANGED <<idx, result, irrIn, irrOut, ref, periodWithdrawal,
                   periodInvestment, safeCapital>>
    /\ UNCHANGED localVars
    /\ UNCHANGED inputVars
    /\ UNCHANGED summaryVars
    /\ UNCHANGED strategyVars

Next ==
    \/ CallEmpty
    \/ CallStart
    \/ PlaceholderRow
    \/ SkipLater
    \/ SimulatePeriod
    \/ Finish
    \/ Return

Spec == Init /\ [][Next]_vars

-----------------------------------------------------------------------------
(* runBacktest on the curve buildPayoffCurve makes of one leg, over          *)
(* histories with no move                                                    *)

BasePrices == {1000, 1500}

\* how far out of the money the strike lies (negative: in the money)
StrikeOffsets == {-2, 0, 2, 10}

OptionLeg(type, side, strike, premium) ==
    [instrument |-> "OPTION", type |-> type, side |-> side, strike |-> strike,
     premium |-> premium, quantity |-> 1, contractSize |-> Null]

\* the single legs tried at a base price: free options around the money, an
\* option with no type, and an option that was paid for
LegsAt(basePrice) ==
    {OptionLeg("CALL", sd, basePrice + off, 0) :
        sd \in {"BUY", "SELL"}, off \in StrikeOffsets}
    \cup {OptionLeg("PUT", sd, basePrice - off, 0) :
        sd \in {"BUY", "SELL"}, off \in StrikeOffsets}
    \cup {OptionLeg("NONE", "BUY", Null, 0),
          OptionLeg("CALL", "BUY", basePrice + 10, 1)}

FlatReturns == {Null, 0}

FlatHistories == UNION {HistoriesOfLen(n, FlatReturns) : n \in 0..MaxFlat}

FlatCapitals == {1000, 300}

InitFlat ==
    /\ currentPrice = 0
    /\ numPeriods = 0
    /\ finalCapitalWithWithdrawal = 0
    /\ \E basePrice \in BasePrices : \E leg \in LegsAt(basePrice) :
          /\ legs = <<leg>>
          /\ payoff = buildPayoffCurve(<<leg>>, basePrice, DefaultRangePct,
                                       DefaultPoints)
    /\ history \in FlatHistories
    /\ baseCapital \in FlatCapitals
    /\ monthlyWithdrawal = 0
    /\ monthlyInvestment = 0
    /\ applyLosses = FALSE
    /\ frequency \in Frequencies
    /\ irrIn = <<>>
    /\ InitRest

SpecFlat == InitFlat /\ [][Next]_vars

-----------------------------------------------------------------------------
(* linearInterpolate alone *)

SampleXs == {-4, -2, 0, 2, 4}

SampleYs == {-100, 0, 50}

QueryXs == -5..5

\* the strictly ascending sequences of n values of xs
RECURSIVE Ascending(_, _)
Ascending(xs, n) ==
    IF n = 0 THEN {<<>>}
    ELSE UNION {{Append(q, x) : x \in {v \in xs : Len(q) = 0 \/ v > Last(q)}} :
                q \in Ascending(xs, n - 1)}

RECURSIVE SeqsOfLen(_, _)
SeqsOfLen(ys, n) ==
    IF n = 0 THEN {<<>>}
    ELSE UNION {{Append(q, y) : y \in ys} : q \in SeqsOfLen(ys, n - 1)}

SampledCurves ==
    UNION {{[basePrice |-> 1000, variations |-> xs, returns |-> ys] :
               xs \in Ascending(SampleXs, n), ys \in SeqsOfLen(SampleYs, n)} :
           n \in 1..MaxCurve}

InitInterp ==
    /\ currentPrice = 0
    /\ numPeriods = 0
    /\ finalCapitalWithWithdrawal = 0
    /\ payoff \in SampledCurves
    /\ \E x \in QueryXs : history = <<[time |-> StartDate, returnPct |-> x]>>
    /\ baseCapital = 1000
    /\ monthlyWithdrawal = 0
    /\ monthlyInvestment = 0
    /\ applyLosses = FALSE
    /\ frequency = "MONTHLY"
    /\ legs = <<>>
    /\ irrIn = <<>>
    /\ InitRest

\* line 294: the call of linearInterpolate
Interpolate ==
    /\ pc = "idle"
    /\ pc' = "done"
    /\ LET r == Interpolation(history[1].returnPct, payoff.variations,
                              payoff.returns)
       IN  /\ strategyReturnBrl' = r.value
           /\ reads' = r.reads
    /\ UNCHANGED <<idx, safeCapital, rows, chartPoints, equityPoints,
                   capitalWith, capitalWithout, firstPeriod, lossBaseYear,
                   lossBaseMonth, lossMonths, periodWithdrawal,
                   periodInvestment, wins, losses, result, irrIn, irrOut, ref,
                   calledBefore, prevResult>>
    /\ UNCHANGED inputVars
    /\ UNCHANGED summaryVars
    /\ UNCHANGED strategyVars

NextInterp == Interpolate

SpecInterp == InitInterp /\ [][NextInterp]_vars

-----------------------------------------------------------------------------
(* calculateIrr alone, and the metric made of its answer *)

FlowValues == {-1000, -500, -3, 0, 1, 1100}

FlowVectors == UNION {SeqsOfLen(FlowValues, n) : n \in 0..MaxFlows}

InitIrr ==
    /\ currentPrice = 0
    /\ numPeriods = 0
    /\ finalCapitalWithWithdrawal = 0
    /\ irrIn \in FlowVectors
    /\ frequency \in Frequencies
    /\ history = <<>>
    /\ payoff = CurveA
    /\ baseCapital = 1000
    /\ monthlyWithdrawal = 0
    /\ monthlyInvestment = 0
    /\ applyLosses = FALSE
    /\ legs = <<>>
    /\ InitRest

\* lines 412-413 and 422-423: the call of calculateIrr and monthlyIrr
SolveIrr ==
    /\ pc = "idle"
    /\ pc' = "done"
    /\ irrOut' = calculateIrr(irrIn)
    /\ result' = [result EXCEPT
                    !.metrics.monthlyIrr = MonthlyIrrPct(irrOut'.rate, frequency)]
    /\ UNCHANGED <<idx, safeCapital, irrIn, ref, calledBefore, prevResult,
                   periodWithdrawal, periodInvestment>>
    /\ UNCHANGED localVars
    /\ UNCHANGED inputVars
    /\ UNCHANGED summaryVars
    /\ UNCHANGED strategyVars

NextIrr == SolveIrr

SpecIrr == InitIrr /\ [][NextIrr]_vars

-----------------------------------------------------------------------------
(* calculateLegPayoff and calculateStrategyCost alone, on one leg *)

LegStrikes == {Null, 8, 10}

LegPremiums == {0, 1, 3}

LegQuantities == {1, 2}

\* absent, zero, positive and negative contract sizes
LegSizes == {Null, 0, 1, 100, -100}

LegPrices == {0, 5, 8, 9, 10, 12}

LegSpace ==
    {[instrument |-> ins, type |-> ty, side |-> sd, strike |-> k,
      premium |-> pr, quantity |-> q, contractSize |-> cs] :
        ins \in {"UNDERLYING", "OPTION"}, ty \in {"CALL", "PUT", "NONE"},
        sd \in {"BUY", "SELL"}, k \in LegStrikes, pr \in LegPremiums,
        q \in LegQuantities, cs \in LegSizes}

\* the variables of a call of runBacktest other than its position
callVars == <<idx, safeCapital, result, irrIn, irrOut, ref, calledBefore,
              prevResult>>

\* no backtest is under way
IdleInputs ==
    /\ history = <<>>
    /\ payoff = EmptyCurve(0)
    /\ baseCapital = 1000
    /\ monthlyWithdrawal = 0
    /\ monthlyInvestment = 0
    /\ applyLosses = FALSE
    /\ frequency = "MONTHLY"
    /\ irrIn = <<>>
    /\ numPeriods = 0
    /\ finalCapitalWithWithdrawal = 0

NoBacktest ==
    /\ IdleInputs
    /\ InitRest

InitLeg ==
    /\ \E leg \in LegSpace : legs = <<leg>>
    /\ currentPrice \in LegPrices
    /\ NoBacktest

\* strategyMath.ts lines 7-31 and backtest.ts lines 59-65 on the leg
PriceLeg ==
    /\ pc = "idle"
    /\ pc' = "done"
    /\ legPayoff' = calculateLegPayoff(legs[1], currentPrice)
    /\ strategyCost' = calculateStrategyCost(legs)
    /\ UNCHANGED <<currentPrice, payoffData, priceData, stats>>
    /\ UNCHANGED callVars
    /\ UNCHANGED localVars
    /\ UNCHANGED inputVars
    /\ UNCHANGED summaryVars

NextLeg == PriceLeg

SpecLeg == InitLeg /\ [][NextLeg]_vars

-----------------------------------------------------------------------------
(* The strategy panel (StrategySimulator): the curve and the statistics of   *)
(* a set of legs at the price shown, the display curve over absolute prices, *)
(* and the curve and cost prepared for a backtest                            *)

\* an amount given in hundredths of the currency
Cents(c) == c * (StatScale \div 100)

PanelLeg(instrument, type, side, strike, premium, contractSize) ==
    [instrument |-> instrument, type |-> type, side |-> side,
     strike |-> strike, premium |-> premium, quantity |-> 1,
     contractSize |-> contractSize]

\* sold call 30 at 1.50, bought call 32 at 0.50
BearCallSpread ==
    <<PanelLeg("OPTION", "CALL", "SELL", Cents(3000), Cents(150), 100),
      PanelLeg("OPTION", "CALL", "BUY", Cents(3200), Cents(50), 100)>>

\* the underlying bought at 30 with a call sold on it
CoveredCall ==
    <<PanelLeg("UNDERLYING", "NONE", "BUY", Null, Cents(3000), 100),
      PanelLeg("OPTION", "CALL", "SELL", Cents(3200), Cents(100), 100)>>

\* absent, zero, positive and negative contract sizes
PanelSizes == {Null, 0, 100, -100}

SingleLegs ==
    {<<PanelLeg("OPTION", "PUT", "BUY", Cents(3000), Cents(100), cs)>> :
        cs \in PanelSizes}
    \cup {<<PanelLeg("OPTION", "CALL", "SELL", Cents(3100), Cents(80), cs)>> :
        cs \in PanelSizes}
    \cup {<<PanelLeg("UNDERLYING", "NONE", "BUY", Null, Cents(2900), cs)>> :
        cs \in PanelSizes}
    \cup {<<PanelLeg("OPTION", "NONE", "BUY", Null, Cents(100), Null)>>}

\* one share's call bought deep in the money: strike 9 at 21.50
DeepCall ==
    <<PanelLeg("OPTION", "CALL", "BUY", Cents(900), Cents(2150), 1)>>

Strategies == {<<>>, BearCallSpread, CoveredCall, DeepCall} \cup SingleLegs

\* prices shown: usual ones, zero, a negative one and the non-finite ones
PanelPrices == {Cents(3000), Cents(2000), 0, -Cents(3000), NaN, PosInf}

\* an amount of the panel in the units of the backtest
ToBacktestUnits(x) ==
    IF NumberIsFinite(x) THEN x * (MoveScale \div StatScale) ELSE x

LegsForBacktest(ls) ==
    [k \in 1..Len(ls) |->
        [ls[k] EXCEPT !.strike = ToBacktestUnits(@),
                      !.premium = ToBacktestUnits(@)]]

InitPanel ==
    /\ legs \in Strategies
    /\ currentPrice \in PanelPrices
    /\ NoBacktest

\* part_003 lines 106-110: the two memos of a render
Render ==
    /\ pc = "idle"
    /\ pc' = "rendered"
    /\ payoffData' = generatePayoffData(legs, currentPrice)
    /\ stats' = calculateStrategyStats(legs, payoffData', currentPrice)
    /\ UNCHANGED <<currentPrice, priceData, legPayoff, strategyCost>>
    /\ UNCHANGED callVars
    /\ UNCHANGED localVars
    /\ UNCHANGED inputVars
    /\ UNCHANGED summaryVars

\* part_004 lines 1089-1129: the display curve
DisplayCurve ==
    /\ pc = "rendered"
    /\ pc' = "charted"
    /\ priceData' = generatePayoffDataAbsolute(legs, currentPrice)
    /\ UNCHANGED <<currentPrice, payoffData, stats, legPayoff, strategyCost>>
    /\ UNCHANGED callVars
    /\ UNCHANGED localVars
    /\ UNCHANGED inputVars
    /\ UNCHANGED summaryVars

\* part_003 lines 188-192: the curve and the cost a backtest starts from
PrepareBacktest ==
    /\ pc = "charted"
    /\ pc' = "prepared"
    /\ payoff' = buildPayoffCurve(LegsForBacktest(legs),
                                  ToBacktestUnits(currentPrice),
                                  DefaultRangePct, DefaultPoints)
    /\ strategyCost' = calculateStrategyCost(legs)
    /\ UNCHANGED <<currentPrice, payoffData, priceData, stats, legPayoff>>
    /\ UNCHANGED callVars
    /\ UNCHANGED localVars
    /\ UNCHANGED <<history, baseCapital, monthlyWithdrawal, monthlyInvestment,
                   applyLosses, frequency, given, legs>>
    /\ UNCHANGED summaryVars

NextPanel ==
    \/ Render
    \/ DisplayCurve
    \/ PrepareBacktest

SpecPanel == InitPanel /\ [][NextPanel]_vars

-----------------------------------------------------------------------------
(* runBacktest over histories that reach the month counts of the haircuts:   *)
(* 6, 10 and 30                                                              *)

\* points of such a history
MaxLoss == 3

MonthsLater(date, n) ==
    LET m == date.month - 1 + n
    IN  [year |-> date.year + m \div 12, month |-> (m % 12) + 1,
         day |-> date.day]

\* the next sample: a week later in the same month, or 5, 9 or 20 months
\* later
NextLossDates(date) ==
    (IF date.day + 7 <= 28 THEN {[date EXCEPT !.day = @ + 7]} ELSE {})
    \cup {MonthsLater(date, n) : n \in {5, 9, 20}}

LossReturns == {Null, 100000}

RECURSIVE LossHistoriesOfLen(_)
LossHistoriesOfLen(n) ==
    IF n = 0 THEN {<<>>}
    ELSE IF n = 1
    THEN {<<[time |-> StartDate, returnPct |-> r]>> : r \in LossReturns}
    ELSE UNION {{Append(h, [time |-> d, returnPct |-> r]) :
                    d \in NextLossDates(Last(h).time), r \in LossReturns} :
                h \in LossHistoriesOfLen(n - 1)}

LossHistories == UNION {LossHistoriesOfLen(n) : n \in 0..MaxLoss}

InitLoss ==
    /\ history \in LossHistories
    /\ payoff = CurveA
    /\ baseCapital = 1000
    /\ \E cf \in CashFlowPairs :
          monthlyWithdrawal = cf[1] /\ monthlyInvestment = cf[2]
    /\ applyLosses \in BOOLEAN
    /\ frequency = "MONTHLY"
    /\ legs = <<>>
    /\ irrIn = <<>>
    /\ currentPrice = 0
    /\ numPeriods = 0
    /\ finalCapitalWithWithdrawal = 0
    /\ InitRest

SpecLoss == InitLoss /\ [][Next]_vars

-----------------------------------------------------------------------------
(* The cash-flow vector of the IRR alone (lines 405-421), for runs of up to  *)
(* MaxPeriods periods                                                        *)

MaxPeriods == 434

NetFlowPairs == {<<50, 20>>, <<20, 50>>}

FinalCapitals == {0, 1200}

InitFlows ==
    /\ numPeriods \in 1..MaxPeriods
    /\ finalCapitalWithWithdrawal \in FinalCapitals
    /\ frequency \in Frequencies
    /\ \E cf \in NetFlowPairs :
          monthlyWithdrawal = cf[1] /\ monthlyInvestment = cf[2]
    /\ history = <<>>
    /\ payoff = CurveA
    /\ baseCapital = 1000
    /\ applyLosses = FALSE
    /\ legs = <<>>
    /\ irrIn = <<>>
    /\ currentPrice = 0
    /\ InitRest

\* lines 405-411 and 414-421: the vector is built
BuildFlows ==
    /\ pc = "idle"
    /\ pc' = "done"
    /\ irrIn' = CashFlows(frequency, SafeCapital(baseCapital), numPeriods,
                          monthlyWithdrawal - monthlyInvestment,
                          finalCapitalWithWithdrawal)
    /\ UNCHANGED <<idx, safeCapital, result, irrOut, ref, calledBefore,
                   prevResult>>
    /\ UNCHANGED strategyVars
    /\ UNCHANGED localVars
    /\ UNCHANGED inputVars
    /\ UNCHANGED summaryVars

NextFlows == BuildFlows

SpecFlows == InitFlows /\ [][NextFlows]_vars

-----------------------------------------------------------------------------
(* calculateStrategyStats alone, on short curves whose profits lie on both   *)
(* sides of zero and of the Unlimited threshold                              *)

\* points of such a curve
MaxStat == 3

\* profits: 50, 10000 and 10000.50 on either side of zero, and zero
StatProfits ==
    {-Cents(1000050), -Cents(1000000), -Cents(5000), 0,
     Cents(5000), Cents(1000000), Cents(1000050)}

\* curves of n samples at the first n moves of the panel's window
StatCurvesOfLen(n) ==
    {[i \in 1..n |-> [movePct |-> MovePctAt(i - 1), profit |-> f[i]]] :
        f \in [1..n -> StatProfits]}

StatCurves == UNION {StatCurvesOfLen(n) : n \in 1..MaxStat}

\* a net credit, a net debit and no premium at all
StatStrategies ==
    {BearCallSpread,
     <<PanelLeg("OPTION", "PUT", "BUY", Cents(3000), Cents(100), 100)>>,
     <<PanelLeg("OPTION", "CALL", "BUY", Cents(3000), 0, 100)>>}

InitStats ==
    /\ legs \in StatStrategies
    /\ currentPrice = Cents(3000)
    /\ payoffData \in StatCurves
    /\ strategyCost = 0
    /\ IdleInputs
    /\ InitRun

\* strategyMath.ts lines 55-144 on the curve given
Summarise ==
    /\ pc = "idle"
    /\ pc' = "done"
    /\ stats' = calculateStrategyStats(legs, payoffData, currentPrice)
    /\ UNCHANGED <<currentPrice, payoffData, priceData, legPayoff,
                   strategyCost>>
    /\ UNCHANGED callVars
    /\ UNCHANGED localVars
    /\ UNCHANGED inputVars
    /\ UNCHANGED summaryVars

NextStats == Summarise

SpecStats == InitStats /\ [][NextStats]_vars

-----------------------------------------------------------------------------
(* runBacktest on the capital StrategySimulator derives from the cost of the *)
(* strategy and the returns of its curve                                     *)

\* a net debit, no premium and a net credit
DerivedCosts == {-80, 0, 50}

\* moves that reach both ends of the curves
DerivedReturns == {Null, -100000, 100000}

InitDerived ==
    /\ currentPrice = 0
    /\ numPeriods = 0
    /\ finalCapitalWithWithdrawal = 0
    /\ payoff \in {CurveA, CurveC, EmptyCurve(1000)}
    /\ history \in Histories(DerivedReturns)
    /\ legs = <<>>
    /\ irrIn = <<>>
    /\ monthlyWithdrawal = 0
    /\ monthlyInvestment = 0
    /\ applyLosses \in BOOLEAN
    /\ frequency = "MONTHLY"
    /\ InitRun
    /\ payoffData = <<>>
    /\ \E cost \in DerivedCosts :
          /\ strategyCost = cost
          /\ baseCapital = deriveBaseCapital(cost, payoff.returns)

SpecDerived == InitDerived /\ [][Next]_vars

-----------------------------------------------------------------------------
(* runBacktest over longer histories of one sample a week, with cash flows,  *)
(* so that weekly runs complete months of 4.33 periods                       *)

\* samples after the first of such a history
MaxWeeks == 9

\* the i-th sample: four a month, on days 1, 8, 15 and 22
WeekDate(i) ==
    [year |-> 2020 + (i \div 48), month |-> ((i \div 4) % 12) + 1,
     day |-> 1 + 7 * (i % 4)]

\* a first sample with no return, as parseYahooHistory makes it, then n
\* samples: one more with no return (the fourth), moves of 0% and of +10%
WeeklyHistory(n) ==
    [i \in 1..(n + 1) |->
        [time |-> WeekDate(i - 1),
         returnPct |-> IF i = 1 \/ i = 4 THEN Null
                       ELSE IF i % 3 = 0 THEN 100000 ELSE 0]]

InitWeeks ==
    /\ currentPrice = 0
    /\ numPeriods = 0
    /\ finalCapitalWithWithdrawal = 0
    /\ history \in {<<>>} \cup {WeeklyHistory(n) : n \in 0..MaxWeeks}
    /\ payoff = CurveA
    /\ baseCapital = 1000
    /\ legs = <<>>
    /\ irrIn = <<>>
    /\ \E cf \in NetFlowPairs \cup {<<0, 0>>} :
          monthlyWithdrawal = cf[1] /\ monthlyInvestment = cf[2]
    /\ applyLosses = FALSE
    /\ frequency \in Frequencies
    /\ InitRest

SpecWeeks == InitWeeks /\ [][Next]_vars

-----------------------------------------------------------------------------
(* Properties of runBacktest *)

SameRow(a, b) ==
    /\ a.strategyReturn = b.strategyReturn
    /\ a.profit = b.profit
    /\ a.lossEvent = b.lossEvent

\* C1: with no withdrawal, no contribution and no losses, capitalWith equals
\* capitalWithout at every equity point emitted, and every row's capital is
\* that common value, while the loop runs and in the result returned.
C1_TracksAgree ==
    (monthlyWithdrawal = 0 /\ monthlyInvestment = 0 /\ ~applyLosses) =>
        /\ Len(rows) = Len(equityPoints)
        /\ \A i \in 1..Len(equityPoints) :
              /\ equityPoints[i].capitalWith = equityPoints[i].capitalWithout
              /\ rows[i].capital = equityPoints[i].capitalWithout
        /\ pc = "done" =>
              /\ Len(result.rows) = Len(result.chart.equity)
              /\ \A i \in 1..Len(result.chart.equity) :
                    /\ result.chart.equity[i].capitalWith
                          = result.chart.equity[i].capitalWithout
                    /\ result.rows[i].capital
                          = result.chart.equity[i].capitalWithout

\* two periods with a profit or a loss each, compounded, no flows, no losses
C1_Witness ==
    /\ pc = "done"
    /\ monthlyWithdrawal = 0 /\ monthlyInvestment = 0 /\ ~applyLosses
    /\ Len(result.rows) >= 2
    /\ \A i \in 1..2 : result.rows[i].profit # 0
    /\ Last(result.rows).capital # safeCapital

\* C2: the track without cash flows is the one a run with no withdrawal and
\* no contribution has: the same capitalWithout at every equity point, the
\* same strategyReturn, profit and lossEvent in every row, the same wins and
\* losses, and the same finalCapitalNoWithdrawal.
C2_NoFlowTrackIgnoresFlows ==
    /\ Len(rows) = Len(ref.rows)
    /\ Len(equityPoints) = Len(ref.equityPoints)
    /\ \A i \in 1..Len(equityPoints) :
          equityPoints[i].capitalWithout = ref.equityPoints[i].capitalWithout
    /\ \A i \in 1..Len(rows) : SameRow(rows[i], ref.rows[i])
    /\ wins = ref.wins
    /\ losses = ref.losses
    /\ pc = "done" =>
          /\ result.metrics.finalCapitalNoWithdrawal
                = FinalCapitalNoWithdrawal(ref.equityPoints, safeCapital)
          /\ result.metrics.wins = ref.wins
          /\ result.metrics.losses = ref.losses
          /\ Len(result.rows) = Len(ref.rows)
          /\ \A i \in 1..Len(result.rows) : SameRow(result.rows[i], ref.rows[i])

\* a run with a withdrawal and a contribution whose two tracks parted
C2_Witness ==
    /\ pc = "done"
    /\ monthlyWithdrawal > 0 /\ monthlyInvestment > 0
    /\ Len(result.rows) >= 2
    /\ Last(result.rows).profit # 0
    /\ result.metrics.finalCapitalWithWithdrawal
          # result.metrics.finalCapitalNoWithdrawal
    /\ Last(ref.equityPoints).capitalWith # Last(equityPoints).capitalWith

\* the month count of the loss clock at a row
MonthCount(row) == monthsElapsedOf(Locals, row.time)

\* C3: with applyLosses, no two rows of a run with the same month count of
\* the loss clock both have lossEvent, and a month count that triggered is
\* among the months already triggered.
C3_OneHaircutPerMonthCount ==
    (applyLosses /\ pc \in {"loop", "done"}) =>
        /\ \A i, j \in 1..Len(rows) :
              (i < j /\ rows[i].lossEvent /\ rows[j].lossEvent)
                  => MonthCount(rows[i]) # MonthCount(rows[j])
        /\ \A i \in 1..Len(rows) :
              rows[i].lossEvent => MonthCount(rows[i]) \in lossMonths

\* a haircut, then another period in the same month with none
C3_Witness ==
    /\ applyLosses
    /\ pc = "done"
    /\ \E i, j \in 1..Len(rows) :
          /\ i < j
          /\ rows[i].lossEvent
          /\ ~rows[j].lossEvent
          /\ MonthCount(rows[i]) = MonthCount(rows[j])
          /\ MonthCount(rows[j]) % LossStepSix = 0

\* the points of the first n that get a row: the first one, and those with
\* a return
Emitting(hist, n) == {i \in 1..n : i = 1 \/ ~NoReturn(hist[i])}

\* the place among the rows of the row of point i
RowOf(hist, i) == Cardinality(Emitting(hist, i))

IsPlaceholder(row, capital) ==
    /\ row.assetReturn = 0
    /\ row.strategyReturn = 0
    /\ row.profit = 0
    /\ row.withdrawal = 0
    /\ row.investment = 0
    /\ row.capital = capital
    /\ ~row.lossEvent

\* the rows qs stand, in order, for the points of the first n that get one
RowsFollow(qs, hist, n) ==
    /\ Len(qs) = Cardinality(Emitting(hist, n))
    /\ \A i \in Emitting(hist, n) :
          LET row == qs[RowOf(hist, i)]
          IN  /\ row.time = hist[i].time
              /\ IF NoReturn(hist[i])
                 THEN IsPlaceholder(row, safeCapital)
                 ELSE row.assetReturn = hist[i].returnPct

\* C4 (as amended): the rows follow history order; a point with a return
\* gets a simulated row, a first point with no return gets the zero-filled
\* placeholder, a later point with no return gets no row; rows, chart.points
\* and chart.equity have the same length.
C4_RowsPerPoint ==
    /\ (pc = "loop") =>
          /\ RowsFollow(rows, history, idx - 1)
          /\ Len(chartPoints) = Len(rows)
          /\ Len(equityPoints) = Len(rows)
    /\ (pc = "done" /\ ~Degenerate(history, payoff, baseCapital)) =>
          /\ RowsFollow(result.rows, history, Len(history))
          /\ Len(result.chart.points) = Len(result.rows)
          /\ Len(result.chart.equity) = Len(result.rows)

\* a run with the placeholder first, a simulated row, and a later point
\* with no return
C4_Witness ==
    /\ pc = "done"
    /\ Len(history) >= 3
    /\ NoReturn(history[1])
    /\ \E i \in 2..Len(history) : NoReturn(history[i])
    /\ \E i \in 2..Len(history) : ~NoReturn(history[i])
    /\ Len(result.rows) < Len(history)
    /\ Len(result.rows) >= 2

\* C4 as stated: exactly one row per history point, the placeholder for
\* every point with no return.
C4_OneRowPerPoint ==
    (pc = "done" /\ ~Degenerate(history, payoff, baseCapital)) =>
        /\ Len(result.rows) = Len(history)
        /\ Len(result.chart.points) = Len(result.rows)
        /\ Len(result.chart.equity) = Len(result.rows)
        /\ \A i \in 1..Len(history) :
              i <= Len(result.rows)
              /\ result.rows[i].time = history[i].time
              /\ (NoReturn(history[i])
                    => /\ result.rows[i].assetReturn = 0
                       /\ result.rows[i].strategyReturn = 0
                       /\ result.rows[i].profit = 0
                       /\ result.rows[i].withdrawal = 0
                       /\ result.rows[i].investment = 0
                       /\ ~result.rows[i].lossEvent)
              /\ (~NoReturn(history[i])
                    => result.rows[i].assetReturn = history[i].returnPct)

\* C5: with no history, no curve or no positive capital the call returns a
\* result with no rows, no chart points and no equity points, every return,
\* rate, profit, IRR and win/loss metric 0, and the three capitals equal to
\* the usable capital: baseCapital if positive, otherwise 0.
C5_EmptyResult ==
    (pc = "done" /\ Degenerate(history, payoff, baseCapital)) =>
        /\ result.rows = <<>>
        /\ result.chart.points = <<>>
        /\ result.chart.equity = <<>>
        /\ result.metrics.totalProfitPct = 0
        /\ result.metrics.avgMonthlyProfit = 0
        /\ result.metrics.monthlyEquivalentRate = 0
        /\ result.metrics.profitWithWithdrawalPct = 0
        /\ result.metrics.monthlyRateWithWithdrawal = 0
        /\ result.metrics.monthlyIrr = 0
        /\ result.metrics.wins = 0
        /\ result.metrics.losses = 0
        /\ LET usable == IF baseCapital > 0 THEN baseCapital ELSE 0
           IN  /\ result.metrics.initialCapital = usable
               /\ result.metrics.finalCapitalNoWithdrawal = usable
               /\ result.metrics.finalCapitalWithWithdrawal = usable

\* the call returned early on a negative capital
C5_Witness ==
    /\ pc = "done"
    /\ baseCapital < 0
    /\ Len(history) > 0
    /\ Len(payoff.variations) > 0
    /\ result = EmptyResult(0)

\* C7: the history and the curve stay as given; every call starts with no
\* loss-clock origin and no month triggered; a call after another with the
\* same inputs returns the same rows, chart and metrics.
C7_NoStateBetweenCalls ==
    /\ history = given.history
    /\ payoff = given.payoff
    /\ (pc = "loop" /\ idx = 1) =>
          /\ lossBaseYear = Null
          /\ lossBaseMonth = Null
          /\ lossMonths = {}
    /\ (pc = "done" /\ calledBefore) => result = prevResult

\* a second call, with losses applied, that triggered a haircut
C7_Witness ==
    /\ pc = "done"
    /\ calledBefore
    /\ applyLosses
    /\ \E i \in 1..Len(result.rows) : result.rows[i].lossEvent
    /\ result = prevResult

\* C6: on a curve with strictly ascending variations and as many returns,
\* the value returned is returns[0] at or below variations[0], the last
\* return at or above the last variation, returns[i] at variations[i], and
\* otherwise lies between the returns of the two samples around the query;
\* no index outside the arrays is read.
C6_InterpolationClamps ==
    (pc = "done") =>
        LET x == history[1].returnPct
            xs == payoff.variations
            ys == payoff.returns
            n == Len(xs)
            y == strategyReturnBrl
        IN  /\ x <= xs[1] => y = ys[1]
            /\ x >= xs[n] => y = ys[n]
            /\ \A i \in 1..n : x = xs[i] => y = ys[i]
            /\ \A i \in 1..(n - 1) :
                  (xs[i] < x /\ x < xs[i + 1])
                     => /\ Min(ys[i], ys[i + 1]) <= y
                        /\ y <= Max(ys[i], ys[i + 1])
            /\ reads \subseteq 0..(n - 1)

\* a query strictly inside a segment that is not the first, answered with
\* a value strictly between the two returns
C6_Witness ==
    /\ pc = "done"
    /\ Len(payoff.variations) >= 3
    /\ \E i \in 2..(Len(payoff.variations) - 1) :
          /\ payoff.variations[i] < history[1].returnPct
          /\ history[1].returnPct < payoff.variations[i + 1]
          /\ Min(payoff.returns[i], payoff.returns[i + 1]) < strategyReturnBrl
          /\ strategyReturnBrl < Max(payoff.returns[i], payoff.returns[i + 1])
          /\ {i - 1, i} \subseteq reads

\* every return of the history that is defined is 0
Flat(hist) == \A i \in 1..Len(hist) : hist[i].returnPct \in {Null, 0}

\* the sampled prices next to the base price, below and above it
PriceBelow(curve) ==
    PriceAt(curve.basePrice, DefaultRangePct, DefaultPoints,
            DefaultPoints \div 2 - 1)

PriceAbove(curve) ==
    PriceAt(curve.basePrice, DefaultRangePct, DefaultPoints, DefaultPoints \div 2)

\* an option with no value at either of the two samples next to the base
\* price; a leg with no option type or no strike has none anywhere
WorthlessNearBase(leg, curve) ==
    /\ leg.instrument = "OPTION"
    /\ \/ leg.type = "NONE"
       \/ leg.strike = Null
       \/ leg.type = "CALL" /\ leg.strike >= PriceAbove(curve)
       \/ leg.type = "PUT" /\ leg.strike # Null /\ leg.strike <= PriceBelow(curve)

ZeroCostFlatRun ==
    /\ pc = "done"
    /\ Len(legs) = 1
    /\ legs[1].premium = 0
    /\ payoff.basePrice > 0
    /\ Flat(history)
    /\ baseCapital > 0
    /\ monthlyWithdrawal = 0
    /\ monthlyInvestment = 0
    /\ ~applyLosses

FinalsAreInitial ==
    /\ result.metrics.finalCapitalNoWithdrawal = baseCapital
    /\ result.metrics.finalCapitalWithWithdrawal = baseCapital

\* C8 (as amended): on the curve built from a single option leg with
\* premium 0 that is worth nothing at the two sampled prices next to the
\* base price, over a history whose defined returns are all 0, with a
\* positive capital, no withdrawal, no contribution and no losses, both
\* final capitals equal the initial capital.
C8_WorthlessLegKeepsCapital ==
    (ZeroCostFlatRun /\ WorthlessNearBase(legs[1], payoff)) => FinalsAreInitial

\* a free call out of the money, two periods simulated
C8_Witness ==
    /\ ZeroCostFlatRun
    /\ WorthlessNearBase(legs[1], payoff)
    /\ legs[1].type = "CALL"
    /\ Len(payoff.variations) = DefaultPoints
    /\ \E i, j \in 1..Len(history) :
          i < j /\ history[i].returnPct = 0 /\ history[j].returnPct = 0
    /\ Len(result.rows) >= 2
    /\ FinalsAreInitial

\* C8 as stated: any single leg with premium 0.
C8_ZeroPremiumKeepsCapital == ZeroCostFlatRun => FinalsAreInitial

\* C9: for the vector [-1000, 1100] the solver returns the rate 0.10, and a
\* MONTHLY run whose vector it is reports monthlyIrr 10 percent.
C9_TenPercent ==
    (pc = "done" /\ irrIn = <<-1000, 1100>>) =>
        /\ irrOut.rate = RateScale \div 10
        /\ frequency = "MONTHLY" => result.metrics.monthlyIrr = 10 * RateScale

\* a MONTHLY run of capital 1000 with one simulated period that ends on 1100
C9_Witness ==
    /\ pc = "done"
    /\ frequency = "MONTHLY"
    /\ safeCapital = 1000
    /\ monthlyWithdrawal = 0 /\ monthlyInvestment = 0
    /\ Len(result.rows) = 2
    /\ result.metrics.finalCapitalWithWithdrawal = 1100
    /\ irrIn = <<-1000, 1100>>
    /\ irrOut.newtonConverged

\* the NPV at the two ends of the bracket is not finite or has one sign
SameSignAtEnds(cashFlows) ==
    LET npvLow == npv(cashFlows, LowRate)
        npvHigh == npv(cashFlows, HighRate)
    IN  \/ ~IsFinite(npvLow)
        \/ ~IsFinite(npvHigh)
        \/ (npvLow > 0 /\ npvHigh > 0)
        \/ (npvLow < 0 /\ npvHigh < 0)

\* C10: the solver takes at most 60 Newton-Raphson turns and then at most
\* 120 bisection turns and answers a rate or null; it answers null when
\* Newton-Raphson did not converge and the NPV has no sign change between
\* the rates -0.999 and 10; a null answer is reported as monthlyIrr 0.
C10_SolverBounded ==
    (pc = "done") =>
        /\ irrOut.newton <= 60
        /\ irrOut.bisect <= 120
        /\ irrOut.rate = Null \/ (LowRate <= irrOut.rate /\ IsFinite(irrOut.rate))
        /\ (Len(irrIn) >= 2 /\ ~irrOut.newtonConverged /\ SameSignAtEnds(irrIn))
              => irrOut.rate = Null
        /\ irrOut.rate = Null => result.metrics.monthlyIrr = 0

\* Newton-Raphson ran and gave up, the NPV is finite and of one sign at
\* both ends, and the answer is null, reported as 0
C10_Witness ==
    /\ pc = "done"
    /\ Len(irrIn) >= 2
    /\ irrOut.newton > 0
    /\ ~irrOut.newtonConverged
    /\ IsFinite(npv(irrIn, LowRate))
    /\ IsFinite(npv(irrIn, HighRate))
    /\ SameSignAtEnds(irrIn)
    /\ irrOut.rate = Null
    /\ result.metrics.monthlyIrr = 0

-----------------------------------------------------------------------------
(* Properties of the strategy panel *)

\* the profit of one unit of a leg at price p, as the payoff diagrams give it
ReferencePnl(leg, p) ==
    LET sign == IF leg.side = "BUY" THEN 1 ELSE -1
        intrinsic == IF leg.type = "CALL"
                     THEN (IF p > leg.strike THEN p - leg.strike ELSE 0)
                     ELSE (IF p < leg.strike THEN leg.strike - p ELSE 0)
    IN  IF leg.instrument = "UNDERLYING" THEN sign * (p - leg.premium)
        ELSE IF leg.type = "NONE" \/ leg.strike = Null THEN 0
        ELSE sign * (intrinsic - leg.premium)

\* the contract size of a leg: its own, or 100 when it has none
SizeOf(leg) ==
    IF leg.contractSize = Null \/ leg.contractSize = 0 THEN 100
    ELSE leg.contractSize

\* C11: for every leg and every price p >= 0, calculateLegPayoff is the
\* reference payoff: for an UNDERLYING leg (p - premium), negated for a SELL;
\* for an OPTION leg max(0, p - strike) - premium (CALL) or
\* max(0, strike - p) - premium (PUT), negated for a SELL; each times
\* quantity times contract size; and 0 for an OPTION leg with no type or
\* no strike.
C11_LegPayoffIsReference ==
    pc = "done" /\ currentPrice >= 0 =>
        legPayoff = ReferencePnl(legs[1], currentPrice)
                        * legs[1].quantity * SizeOf(legs[1])

\* a bought call in the money: (12 - 8 - 1) * 2 * 100
C11_Witness ==
    /\ pc = "done"
    /\ legs[1] = [instrument |-> "OPTION", type |-> "CALL", side |-> "BUY",
                  strike |-> 8, premium |-> 1, quantity |-> 2,
                  contractSize |-> 100]
    /\ currentPrice = 12
    /\ legPayoff = 600

\* a strategy of one leg whose contract size is absent, zero or negative
DefaultSized ==
    /\ Len(legs) = 1
    /\ (legs[1].contractSize = Null \/ legs[1].contractSize <= 0)

\* the premium of a leg at 100 per contract: received for a SELL, paid for a
\* BUY
PremiumAtHundred(leg) ==
    (IF leg.side = "SELL" THEN 1 ELSE -1) * leg.premium * leg.quantity * 100

\* C12: for every leg whose contractSize is absent or non-positive (zero or
\* negative), calculateLegPayoff, the netPremium of calculateStrategyStats
\* and calculateStrategyCost all use the multiplier 100.
C12_NonPositiveSizeIsHundred ==
    DefaultSized =>
        /\ pc # "idle" /\ payoffData # <<>> =>
              /\ stats.spotPnl = ReferencePnl(legs[1], currentPrice)
                                     * legs[1].quantity * 100
              /\ stats.netPremium = PremiumAtHundred(legs[1])
        /\ pc = "prepared" => strategyCost = PremiumAtHundred(legs[1])

\* what the three functions do agree on: an absent or zero contract size
\* is 100
C12_AbsentOrZeroSizeIsHundred ==
    DefaultSized /\ (legs[1].contractSize = Null \/ legs[1].contractSize = 0) =>
        /\ pc # "idle" /\ payoffData # <<>> =>
              /\ stats.spotPnl = ReferencePnl(legs[1], currentPrice)
                                     * legs[1].quantity * 100
              /\ stats.netPremium = PremiumAtHundred(legs[1])
        /\ pc = "prepared" => strategyCost = PremiumAtHundred(legs[1])

\* a bought put of contract size 0 at 1.00: 100 is paid
C12_Witness ==
    /\ pc = "prepared"
    /\ legs = <<PanelLeg("OPTION", "PUT", "BUY", Cents(3000), Cents(100), 0)>>
    /\ currentPrice = Cents(3000)
    /\ stats.netPremium = -Cents(10000)
    /\ stats.spotPnl = -Cents(10000)
    /\ strategyCost = -Cents(10000)

\* the sum of calculateLegPayoff over the legs at price p
RECURSIVE DirectSum(_, _)
DirectSum(ls, p) ==
    IF ls = <<>> THEN 0
    ELSE calculateLegPayoff(Head(ls), p) + DirectSum(Tail(ls), p)

\* the panel has rendered: the curve and the statistics are those of the
\* legs and the price
Rendered == pc \in {"rendered", "charted", "prepared"}

\* C13 as stated: for every leg set and every current price p >= 0,
\* generatePayoffData(legs, p) passed to calculateStrategyStats(legs, curve,
\* p) yields a spotPnl equal to the sum of calculateLegPayoff(leg, p) over
\* the legs.
C13_SpotPnlIsDirectSum ==
    Rendered /\ NumberIsFinite(currentPrice) /\ currentPrice >= 0 =>
        stats.spotPnl = DirectSum(legs, currentPrice)

\* C13: for every leg set and every finite current price p > 0, the spotPnl
\* of calculateStrategyStats on the curve of generatePayoffData(legs, p) is
\* the sum of calculateLegPayoff(leg, p) over the legs; at p = 0 the curve is
\* empty and spotPnl is 0.
C13_SpotPnlIsDirectSumAbovePriceZero ==
    /\ Rendered /\ NumberIsFinite(currentPrice) /\ currentPrice > 0 =>
          stats.spotPnl = DirectSum(legs, currentPrice)
    /\ Rendered /\ currentPrice = 0 => payoffData = <<>> /\ stats.spotPnl = 0

\* the bear call spread at 30: 150 - 50
C13_Witness ==
    /\ pc = "rendered"
    /\ legs = BearCallSpread
    /\ currentPrice = Cents(3000)
    /\ Len(payoffData) = PAYOFF_POINTS + 1
    /\ stats.spotPnl = Cents(10000)

\* C14: the bear call spread [SELL CALL 30 at 1.50, BUY CALL 32 at 0.50,
\* quantity 1, contract size 100] at base price 30 has netPremium +100,
\* maxProfit 100 and maxLoss 100, both numbers, and exactly one break-even,
\* a move of +3.3333 %, which is the price 31.
C14_BearCallSpread ==
    Rendered /\ legs = BearCallSpread /\ currentPrice = Cents(3000) =>
        /\ stats.netPremium = Cents(10000)
        /\ stats.maxProfit = Cents(10000)
        /\ stats.maxLoss = Cents(10000)
        /\ stats.breakEvens = <<33333>>
        /\ Abs(PriceAtMove(currentPrice, stats.breakEvens[1]) - Cents(3100))
              <= StatFixed4Unit

C14_Witness ==
    /\ pc = "rendered"
    /\ legs = BearCallSpread
    /\ currentPrice = Cents(3000)
    /\ Len(stats.breakEvens) = 1
    /\ stats.maxProfit # Unlimited
    /\ stats.maxLoss # Unlimited

\* nothing to draw: no leg, or a price that is not finite or not positive
NothingToDraw ==
    Len(legs) = 0 \/ ~NumberIsFinite(currentPrice) \/ currentPrice <= 0

\* C15: every curve builder (generatePayoffData over percentage moves,
\* generatePayoffData over absolute prices, and buildPayoffCurve) returns an
\* empty curve whenever the leg set is empty, the current price is not
\* finite, or the current price is <= 0, whatever strikes and entry prices
\* the legs carry.
C15_EmptyCurveOnBadInput ==
    pc = "prepared" /\ NothingToDraw =>
        /\ payoffData = <<>>
        /\ priceData = <<>>
        /\ payoff.variations = <<>>
        /\ payoff.returns = <<>>

\* what the builders do: the two percentage-move builders return an empty
\* curve on such input; the absolute-price builder does so only when there
\* is no leg or no finite positive price, strike or entry price at all
C15_EmptyCurveWhereNoReference ==
    pc = "prepared" /\ NothingToDraw =>
        /\ payoffData = <<>>
        /\ payoff.variations = <<>>
        /\ payoff.returns = <<>>
        /\ priceData = <<>> <=>
              Len(legs) = 0 \/ ReferencePoints(legs, currentPrice) = {}

\* the bear call spread at price 0: the display curve has all its points
C15_Witness ==
    /\ pc = "prepared"
    /\ legs = BearCallSpread
    /\ currentPrice = 0
    /\ payoffData = <<>>
    /\ Len(priceData) = AbsolutePoints + 1

-----------------------------------------------------------------------------
(* Properties of the periods of runBacktest *)

\* the monthly amount as a period's amount: itself, or divided by 4.33
PerPeriod(monthly) ==
    IF frequency = "WEEKLY" THEN RoundDiv(monthly * 100, 433) ELSE monthly

\* capital * (1 + brl / base) * (1 - h), h in hundredths
AfterReturnAndHaircut(capital, brl, base, h) ==
    RoundDiv(RoundDiv(capital * (base + brl), base) * (100 - h), 100)

\* the step is the simulation of a period with a return
SimulatesPeriod ==
    /\ pc = "loop"
    /\ idx <= Len(history)
    /\ ~NoReturn(history[idx])
    /\ idx' = idx + 1

\* C16: in every simulated period, with r the interpolated profit over
\* baseCapital and h the haircut of the period (0 if none), capitalWithout
\* becomes capitalWithout * (1 + r) * (1 - h) and capitalWith becomes
\* capitalWith * (1 + r) * (1 - h) - periodWithdrawal + periodInvestment,
\* the period amounts being the monthly inputs (MONTHLY) or the monthly
\* inputs over 4.33 (WEEKLY); the row's capital is the new capitalWith, its
\* withdrawal and investment are the period amounts, and its profit is the
\* change of capitalWithout.
C16_PeriodUpdate ==
    [][SimulatesPeriod =>
        LET brl == linearInterpolate(history[idx].returnPct,
                                     payoff.variations, payoff.returns)
            h == LossPct(Locals, history[idx].time, applyLosses)
            row == rows'[Len(rows')]
        IN  /\ capitalWithout' =
                  AfterReturnAndHaircut(capitalWithout, brl, baseCapital, h)
            /\ capitalWith' =
                  AfterReturnAndHaircut(capitalWith, brl, baseCapital, h)
                  - PerPeriod(monthlyWithdrawal) + PerPeriod(monthlyInvestment)
            /\ Len(rows') = Len(rows) + 1
            /\ row.capital = capitalWith'
            /\ row.withdrawal = PerPeriod(monthlyWithdrawal)
            /\ row.investment = PerPeriod(monthlyInvestment)
            /\ row.profit = capitalWithout' - capitalWithout]_vars

\* a weekly period with a haircut, a withdrawal of 50 / 4.33 and a
\* contribution of 20 / 4.33
C16_Witness ==
    /\ pc = "loop"
    /\ frequency = "WEEKLY"
    /\ rows # <<>>
    /\ Last(rows).lossEvent
    /\ Last(rows).withdrawal = 12
    /\ Last(rows).investment = 5
    /\ Last(rows).profit # 0
    /\ Last(rows).capital = capitalWith
    /\ capitalWith # capitalWithout

\* the rows of a run that stand for a simulated period
SimulatedRows ==
    {i \in 1..Len(result.rows) : i > 1 \/ ~NoReturn(history[1])}

\* capitalWithout before the period of row i
WithoutBefore(i) ==
    IF i = 1 THEN safeCapital ELSE result.chart.equity[i - 1].capitalWithout

\* C19: after a run, each simulated row's strategyReturn is (capitalWithout
\* after the haircut - capitalWithout before the period) / capitalWithout
\* before the period, the same with and without cash flows; metrics.wins is
\* the number of rows with strategyReturn > 0 and metrics.losses the number
\* with strategyReturn < 0, so wins + losses never exceeds the number of
\* simulated rows.
C19_StrategyReturnAndCounters ==
    (pc = "done" /\ ~Degenerate(history, payoff, baseCapital)) =>
        /\ \A i \in SimulatedRows :
              /\ result.rows[i].strategyReturn =
                    (IF WithoutBefore(i) = 0 THEN 0
                     ELSE RoundDiv((result.chart.equity[i].capitalWithout
                                      - WithoutBefore(i)) * MoveScale,
                                   WithoutBefore(i)))
              /\ result.rows[i].strategyReturn = ref.rows[i].strategyReturn
        /\ result.metrics.wins =
              Cardinality({i \in 1..Len(result.rows) :
                              result.rows[i].strategyReturn > 0})
        /\ result.metrics.losses =
              Cardinality({i \in 1..Len(result.rows) :
                              result.rows[i].strategyReturn < 0})
        /\ result.metrics.wins + result.metrics.losses
              <= Cardinality(SimulatedRows)

\* a run with cash flows, a placeholder, a winning and a losing period
C19_Witness ==
    /\ pc = "done"
    /\ monthlyWithdrawal # monthlyInvestment
    /\ Len(result.rows) = 3
    /\ NoReturn(history[1])
    /\ result.metrics.wins = 1
    /\ result.metrics.losses = 1
    /\ \E i \in SimulatedRows : result.rows[i].strategyReturn < 0

\* the points handled so far that have a return
RealPeriods == {i \in 1..(idx - 1) : ~NoReturn(history[i])}

\* the first of them
FirstRealPeriod == CHOOSE i \in RealPeriods : \A j \in RealPeriods : i <= j

\* whole calendar months from the month of date a to the month of date b,
\* counted from 1
MonthsFrom(a, b) == (b.year - a.year) * 12 + (b.month - a.month) + 1

\* C18: with applyLosses, the origin of the loss clock is the calendar
\* (year, month) of the first period that has a defined return, not of the
\* placeholder point with no return, and the month count of a period is
\* the number of whole calendar months since that origin counted from 1, so
\* every period in the origin month has month count 1.
C18_ClockStartsAtFirstReturn ==
    (applyLosses /\ pc \in {"loop", "done"} /\ RealPeriods # {}) =>
        /\ lossBaseYear = history[FirstRealPeriod].time.year
        /\ lossBaseMonth = history[FirstRealPeriod].time.month
        /\ \A i \in RealPeriods :
              monthsElapsedOf(Locals, history[i].time) =
                  MonthsFrom(history[FirstRealPeriod].time, history[i].time)

\* what the loop does: the origin is the month of the first point of the
\* history, with or without a return
C18_ClockStartsAtFirstPoint ==
    (applyLosses /\ pc \in {"loop", "done"} /\ idx > 1) =>
        /\ lossBaseYear = history[1].time.year
        /\ lossBaseMonth = history[1].time.month
        /\ \A i \in 1..(idx - 1) :
              monthsElapsedOf(Locals, history[i].time) =
                  MonthsFrom(history[1].time, history[i].time)

\* a placeholder in October, the first return in March: month count 6 and
\* a haircut in the first period with a return
C18_Witness ==
    /\ applyLosses
    /\ pc = "done"
    /\ Len(history) >= 2
    /\ NoReturn(history[1])
    /\ ~NoReturn(history[2])
    /\ history[2].time.month # history[1].time.month
    /\ lossBaseMonth = history[1].time.month
    /\ monthsElapsedOf(Locals, history[2].time) = 6
    /\ result.rows[2].lossEvent

\* the rows so far that stand for a simulated period
RowsSimulated == {i \in 1..Len(rows) : i > 1 \/ ~NoReturn(history[1])}

\* month count m triggered in a row before row i
TriggeredBefore(i, m) ==
    \E j \in 1..(i - 1) : rows[j].lossEvent /\ MonthCount(rows[j]) = m

\* the haircut in hundredths as the claim gives it: 2 on a multiple of 6,
\* and 9 more when that month is a multiple of 10 as well
NestedHaircut(m) ==
    IF m % 6 = 0 THEN (IF m % 10 = 0 THEN 11 ELSE 2) ELSE 0

\* the haircut in hundredths with each part on its own multiples
AdditiveHaircut(m) ==
    (IF m % 6 = 0 THEN 2 ELSE 0) + (IF m % 10 = 0 THEN 9 ELSE 0)

\* row i took the haircut h (0: none) on both tracks
RowTookHaircut(i, h) ==
    LET brl == linearInterpolate(rows[i].assetReturn, payoff.variations,
                                 payoff.returns)
        beforeWithout == IF i = 1 THEN safeCapital
                         ELSE equityPoints[i - 1].capitalWithout
        beforeWith == IF i = 1 THEN safeCapital
                      ELSE equityPoints[i - 1].capitalWith
    IN  /\ rows[i].lossEvent = (h > 0)
        /\ equityPoints[i].capitalWithout =
              AfterReturnAndHaircut(beforeWithout, brl, baseCapital, h)
        /\ equityPoints[i].capitalWith =
              AfterReturnAndHaircut(beforeWith, brl, baseCapital, h)
              - rows[i].withdrawal + rows[i].investment

\* C17: with applyLosses, a period whose month count m has not yet
\* triggered takes a haircut of 2% if m is a multiple of 6, plus 9% if m is
\* also a multiple of 10 (11% on a multiple of both, the 9% only on months
\* that are multiples of 6 as well), capped at 99%; both tracks are
\* multiplied by (1 - haircut) and the row has lossEvent exactly when a
\* haircut was applied; with applyLosses off no row has lossEvent.
C17_NineOnlyWithSix ==
    pc \in {"loop", "done"} =>
        \A i \in RowsSimulated :
            IF applyLosses /\ ~TriggeredBefore(i, MonthCount(rows[i]))
            THEN RowTookHaircut(i, Min(NestedHaircut(MonthCount(rows[i])), 99))
            ELSE RowTookHaircut(i, 0)

\* what the loop does: 2% on a multiple of 6 and 9% on a multiple of 10,
\* each on its own, added and capped at 99%
C17_SixAndTenApart ==
    pc \in {"loop", "done"} =>
        \A i \in RowsSimulated :
            IF applyLosses /\ ~TriggeredBefore(i, MonthCount(rows[i]))
            THEN RowTookHaircut(i, Min(AdditiveHaircut(MonthCount(rows[i])), 99))
            ELSE RowTookHaircut(i, 0)

\* month count 10 took 9% and, later, month count 30 took 11%
C17_Witness ==
    /\ applyLosses
    /\ pc = "done"
    /\ \E i, j \in RowsSimulated :
          /\ MonthCount(rows[i]) = 10
          /\ rows[i].lossEvent
          /\ RowTookHaircut(i, 9)
          /\ MonthCount(rows[j]) = 30
          /\ RowTookHaircut(j, 11)

-----------------------------------------------------------------------------
(* Properties of the cash-flow vector *)

\* the flow of period k in the vector, the final capital taken off the last
FlowOf(k) ==
    irrIn[k + 1] - (IF k = numPeriods THEN finalCapitalWithWithdrawal ELSE 0)

\* a whole multiple of 4.33 falls in the interval (k - 1, k]
MultipleFallsIn(k) == (100 * k) \div 433 > (100 * (k - 1)) \div 433

\* the vector is built, of a run of N = numPeriods periods with a net flow
\* that is not 0
VectorBuilt ==
    /\ pc = "done"
    /\ Len(irrIn) = numPeriods + 1
    /\ irrIn[1] = -baseCapital

\* C20: in WEEKLY frequency the vector is [-initialCapital, f_1 .. f_N]
\* with the final capital of the with-track added to f_N, where f_k is
\* monthlyWithdrawal - monthlyInvestment exactly when a whole multiple of
\* 4.33 weeks falls in (k - 1, k] and 0 otherwise, so exactly
\* floor(N / 4.33) of the N periods carry a flow; in MONTHLY frequency
\* every period carries the flow.
C20_FlowAtEachMonthBoundary ==
    pc = "done" =>
        /\ VectorBuilt
        /\ frequency = "WEEKLY" =>
              /\ \A k \in 1..numPeriods :
                    FlowOf(k) = (IF MultipleFallsIn(k)
                                 THEN monthlyWithdrawal - monthlyInvestment
                                 ELSE 0)
              /\ Cardinality({k \in 1..numPeriods : FlowOf(k) # 0})
                    = (100 * numPeriods) \div 433
        /\ frequency = "MONTHLY" =>
              \A k \in 1..numPeriods :
                  FlowOf(k) = monthlyWithdrawal - monthlyInvestment

\* what the loop does: the same, for runs of fewer than 433 weekly periods;
\* the boundary that falls exactly on week 433 is missed and its flow is
\* carried by week 434
C20_FlowAtEachBoundaryBelow433 ==
    pc = "done" =>
        /\ VectorBuilt
        /\ frequency = "WEEKLY" =>
              /\ \A k \in 1..numPeriods :
                    FlowOf(k) =
                       (IF (k = 434 \/ MultipleFallsIn(k)) /\ k # 433
                        THEN monthlyWithdrawal - monthlyInvestment
                        ELSE 0)
              /\ numPeriods < 433 =>
                    Cardinality({k \in 1..numPeriods : FlowOf(k) # 0})
                        = (100 * numPeriods) \div 433
        /\ frequency = "MONTHLY" =>
              \A k \in 1..numPeriods :
                  FlowOf(k) = monthlyWithdrawal - monthlyInvestment

\* nine weekly periods: flows in weeks 5 and 9, the final capital on week 9
C20_Witness ==
    /\ pc = "done"
    /\ frequency = "WEEKLY"
    /\ numPeriods = 9
    /\ monthlyWithdrawal = 50
    /\ monthlyInvestment = 20
    /\ finalCapitalWithWithdrawal = 1200
    /\ irrIn = <<-1000, 0, 0, 0, 0, 30, 0, 0, 0, 1230>>

-----------------------------------------------------------------------------
(* Properties of the curve prepared for a backtest *)

\* the panel has prepared the curve of a non-empty leg set at a positive price
PreparedFromLegs ==
    /\ pc = "prepared"
    /\ Len(legs) > 0
    /\ NumberIsFinite(currentPrice)
    /\ currentPrice > 0

\* the window of n + 1 ascending moves from -range to +range in n intervals
\* that are equal up to the rounding of a move to six decimals
SymmetricWindow(xs, range, n) ==
    /\ Len(xs) = n + 1
    /\ xs[1] = -range
    /\ xs[n + 1] = range
    /\ \A i \in 1..n :
          /\ xs[i] < xs[i + 1]
          /\ Abs((xs[i + 1] - xs[i]) * n - 2 * range) <= 2 * n

\* C21 as stated: the curve built for the backtest from a non-empty leg set
\* and a positive current price covers the window from -40% to +40% in 320
\* equal intervals (321 ascending points), whatever the strikes.
C21_WindowFortyPercent ==
    PreparedFromLegs =>
        /\ SymmetricWindow(payoff.variations, 400000, 320)
        /\ Len(payoff.returns) = 321

\* C21 as the code has it: the curve built for the backtest from a non-empty
\* leg set and a positive current price covers the window from -30% to +30%
\* in 249 equal intervals (250 ascending points), whatever the strikes; the
\* window of 40% in 320 intervals is that of the curve the panel draws.
C21_WindowThirtyPercent ==
    /\ PreparedFromLegs =>
          /\ SymmetricWindow(payoff.variations, 300000, 249)
          /\ Len(payoff.returns) = 250
          /\ payoff.basePrice = ToBacktestUnits(currentPrice)
    /\ (pc \in {"rendered", "charted", "prepared"} /\ Len(legs) > 0
        /\ NumberIsFinite(currentPrice) /\ currentPrice > 0) =>
          /\ Len(payoffData) = 321
          /\ payoffData[1].movePct = -40 * PctScale
          /\ payoffData[321].movePct = 40 * PctScale
          /\ \A i \in 1..320 :
                payoffData[i + 1].movePct - payoffData[i].movePct
                    = PctScale \div 4

\* the curves of two strategies with different strikes have been prepared at
\* a positive price: the spread with strikes 30 and 32 at the price 20
C21_Witness ==
    /\ PreparedFromLegs
    /\ legs = BearCallSpread
    /\ currentPrice = Cents(2000)
    /\ Len(payoff.variations) = 250
    /\ payoff.variations[1] = -300000
    /\ payoff.variations[2] = -297590
    /\ payoff.variations[250] = 300000

-----------------------------------------------------------------------------
(* Properties of the sweep over absolute prices *)

\* the positive reference prices: the current price, the strikes of the
\* options and the entry prices of the underlying legs
PositiveReferences ==
    {v \in {currentPrice}
           \cup {legs[k].strike : k \in {j \in 1..Len(legs) :
                                     legs[j].instrument = "OPTION"}}
           \cup {legs[k].premium : k \in {j \in 1..Len(legs) :
                                     legs[j].instrument = "UNDERLYING"}} :
        NumberIsFinite(v) /\ v > 0}

Lo == CHOOSE m \in PositiveReferences : \A v \in PositiveReferences : m <= v

Hi == CHOOSE m \in PositiveReferences : \A v \in PositiveReferences : m >= v

\* 50% of (hi - lo), or 20% of hi when hi = lo
Buffer == IF Hi = Lo THEN Hi \div 5 ELSE (Hi - Lo) \div 2

\* the display curve has been drawn from some positive reference price
Swept ==
    /\ pc \in {"charted", "prepared"}
    /\ Len(legs) > 0
    /\ PositiveReferences # {}

\* 321 samples from start to end, evenly spaced up to the rounding of a
\* price to four decimals
EvenSweep(data, start, end) ==
    /\ Len(data) = 321
    /\ data[1].price = start
    /\ data[321].price = end
    /\ \A i \in 1..320 :
          Abs((data[i + 1].price - data[i].price) * 320 - (end - start))
              <= 2 * 320 * StatFixed4Unit

\* C22 as stated: the sweep over absolute prices has 321 evenly spaced
\* samples, the first at lo - buffer and the last at hi + buffer, with lo and
\* hi the least and greatest positive reference price and buffer 50% of
\* (hi - lo), or 20% of hi when hi = lo.
C22_BufferOnEachSide ==
    Swept => EvenSweep(priceData, Lo - Buffer, Hi + Buffer)

\* C22 as the code has it: the first sample is at lo - buffer where that is
\* not negative and at price 0 otherwise (when hi > 3 * lo); the last is at
\* hi + buffer; the 321 samples are evenly spaced between the two.
C22_BufferClampedAtZero ==
    Swept =>
        /\ EvenSweep(priceData, Max(0, Lo - Buffer), Hi + Buffer)
        /\ (Hi <= 3 * Lo) => priceData[1].price = Lo - Buffer
        /\ (Hi > 3 * Lo) => priceData[1].price = 0

\* the call of strike 9 at the price 30: lo = 9, hi = 30, the buffer is 10.5
\* and the sweep runs from 0 to 40.5
C22_Witness ==
    /\ Swept
    /\ legs = DeepCall
    /\ currentPrice = Cents(3000)
    /\ Buffer = Cents(1050)
    /\ priceData[1].price = 0
    /\ priceData[321].price = Cents(4050)

-----------------------------------------------------------------------------
(* Properties of calculateStrategyStats *)

\* the statistics of a non-empty curve have been computed
Summarised == pc = "done" /\ Len(payoffData) > 0

ProfitAt(i) == payoffData[i].profit

LastProfit == ProfitAt(Len(payoffData))

\* the profit before the last, the last itself on a curve of one sample
ProfitBeforeLast ==
    IF Len(payoffData) >= 2 THEN ProfitAt(Len(payoffData) - 1) ELSE LastProfit

\* the second profit, the first itself on a curve of one sample
SecondProfit == IF Len(payoffData) >= 2 THEN ProfitAt(2) ELSE ProfitAt(1)

CurveProfits == {ProfitAt(i) : i \in 1..Len(payoffData)}

\* 10000 units of currency
TenThousand == Cents(1000000)

\* C23: for every non-empty curve maxProfit is 'Unlimited' exactly when the
\* last profit exceeds the one before it and is above 10000, and the greatest
\* profit of the curve otherwise; maxLoss is 'Unlimited' exactly when the
\* second profit exceeds the first and the first is below -10000, or the last
\* profit is less than the one before it and below -10000, and a number
\* otherwise.
C23_UnlimitedAtSteepEdges ==
    Summarised =>
        /\ (stats.maxProfit = Unlimited) <=>
              (LastProfit > ProfitBeforeLast /\ LastProfit > TenThousand)
        /\ stats.maxProfit # Unlimited =>
              /\ stats.maxProfit \in CurveProfits
              /\ \A v \in CurveProfits : v <= stats.maxProfit
        /\ (stats.maxLoss = Unlimited) <=>
              \/ SecondProfit > ProfitAt(1) /\ ProfitAt(1) < -TenThousand
              \/ LastProfit < ProfitBeforeLast /\ LastProfit < -TenThousand
        /\ stats.maxLoss # Unlimited =>
              NumberIsFinite(stats.maxLoss) /\ stats.maxLoss >= 0

\* a curve rising from -10000.50 through 50 to 10000.50: both extremes are
\* Unlimited
C23_Witness ==
    /\ Summarised
    /\ Len(payoffData) = 3
    /\ ProfitAt(1) = -Cents(1000050)
    /\ ProfitAt(2) = Cents(5000)
    /\ ProfitAt(3) = Cents(1000050)
    /\ stats.maxProfit = Unlimited
    /\ stats.maxLoss = Unlimited

\* samples i and i + 1 lie on either side of zero or one of them on it
TouchesZero(i) ==
    /\ \/ ProfitAt(i) <= 0 /\ ProfitAt(i + 1) >= 0
       \/ ProfitAt(i) >= 0 /\ ProfitAt(i + 1) <= 0
    /\ ~(ProfitAt(i) = 0 /\ ProfitAt(i + 1) = 0)

\* leftMove + t * (rightMove - leftMove) with
\* t = (0 - leftProfit) / (rightProfit - leftProfit), to four decimals
InterpolatedMove(i) ==
    LET leftMove == payoffData[i].movePct
        rightMove == payoffData[i + 1].movePct
        den == ProfitAt(i + 1) - ProfitAt(i)
    IN  leftMove + MulDiv(0 - ProfitAt(i), rightMove - leftMove, den)

\* a break-even is reported for samples i and i + 1
Reported(i) ==
    \E k \in 1..Len(stats.breakEvens) :
        /\ stats.breakEvens[k] = InterpolatedMove(i)
        /\ payoffData[i].movePct <= stats.breakEvens[k]
        /\ stats.breakEvens[k] <= payoffData[i + 1].movePct

\* C24 as stated: for every pair of consecutive samples whose profits cross
\* zero, exact zero included (one <= 0, the other >= 0, not both 0), a
\* break-even equal to the linear interpolation between the two samples is
\* reported, within their moves; also when the zero is reached at the last
\* sample or followed by a flat run of zero profit.
C24_BreakEvenWhereverZeroIsTouched ==
    Summarised =>
        \A i \in 1..(Len(payoffData) - 1) : TouchesZero(i) => Reported(i)

\* what the code reports: a break-even for every pair that starts at or
\* beyond zero and ends strictly on the other side, and nothing else; a pair
\* that ends on zero is reported through the next pair, and only if that one
\* leaves zero.
C24_BreakEvenWhereZeroIsLeft ==
    Summarised =>
        LET Leaves(i) == \/ ProfitAt(i) <= 0 /\ ProfitAt(i + 1) > 0
                         \/ ProfitAt(i) >= 0 /\ ProfitAt(i + 1) < 0
            pairs == 1..(Len(payoffData) - 1)
        IN  /\ \A i \in pairs : Leaves(i) => Reported(i)
            /\ \A k \in 1..Len(stats.breakEvens) :
                  \E i \in pairs :
                      Leaves(i) /\ stats.breakEvens[k] = InterpolatedMove(i)
            /\ \A i \in pairs :
                  (ProfitAt(i) # 0 /\ ProfitAt(i + 1) = 0) =>
                      (Reported(i) <=> (i + 1 \in pairs /\ Leaves(i + 1)))
            /\ \A k \in 1..(Len(stats.breakEvens) - 1) :
                  stats.breakEvens[k] < stats.breakEvens[k + 1]

\* a curve that rises from -50 to zero and stays there: no break-even is
\* reported
C24_Witness ==
    /\ Summarised
    /\ Len(payoffData) = 3
    /\ ProfitAt(1) = -Cents(5000)
    /\ ProfitAt(2) = 0
    /\ ProfitAt(3) = 0
    /\ stats.breakEvens = <<>>

\* C25: for every non-empty curve capitalAtRisk is the absolute value of the
\* net premium when the net premium is negative, otherwise maxLoss when
\* maxLoss is a number, otherwise null; maxProfitPct and maxLossPct are null
\* whenever capitalAtRisk is null or 0, and a maxLossPct that is not null is
\* never positive.
C25_CapitalAtRisk ==
    Summarised =>
        /\ stats.netPremium < 0 => stats.capitalAtRisk = -stats.netPremium
        /\ (stats.netPremium >= 0 /\ stats.maxLoss # Unlimited) =>
              stats.capitalAtRisk = stats.maxLoss
        /\ (stats.netPremium >= 0 /\ stats.maxLoss = Unlimited) =>
              stats.capitalAtRisk = Null
        /\ (stats.capitalAtRisk = Null \/ stats.capitalAtRisk = 0) =>
              stats.maxProfitPct = Null /\ stats.maxLossPct = Null
        /\ stats.maxLossPct # Null => stats.maxLossPct <= 0

\* the bought put, a net debit of 100, on a curve whose greatest loss is 50:
\* the capital at risk is 100 and maxLossPct is -50 %
C25_Witness ==
    /\ Summarised
    /\ stats.netPremium = -Cents(10000)
    /\ stats.maxLoss = Cents(5000)
    /\ stats.capitalAtRisk = Cents(10000)
    /\ stats.maxLossPct = -50 * PctScale

\* the least profit of the curve
LeastProfit == CHOOSE m \in CurveProfits : \A v \in CurveProfits : m <= v

\* C28 as stated: a numeric maxLoss is the largest loss on the curve,
\* max(0, -(least profit)); on a curve with no negative profit it is 0 and
\* maxLossPct is null or 0.
C28_MaxLossIsLargestLoss ==
    (Summarised /\ stats.maxLoss # Unlimited) =>
        /\ stats.maxLoss = Max(0, -LeastProfit)
        /\ LeastProfit >= 0 =>
              /\ stats.maxLoss = 0
              /\ stats.maxLossPct = Null \/ stats.maxLossPct = 0

\* what the code reports: a numeric maxLoss is the absolute value of the
\* least profit, which is the largest loss only where some profit is <= 0;
\* on a curve of positive profits it is the least profit itself.
C28_MaxLossIsAbsoluteLeastProfit ==
    (Summarised /\ stats.maxLoss # Unlimited) =>
        /\ stats.maxLoss = Abs(LeastProfit)
        /\ LeastProfit <= 0 => stats.maxLoss = Max(0, -LeastProfit)
        /\ LeastProfit > 0 => stats.maxLoss = LeastProfit

\* the spread, a net credit, on a curve of profits 50 and 10000: a loss of
\* 50 is reported, and -100 % of the capital at risk
C28_Witness ==
    /\ Summarised
    /\ legs = BearCallSpread
    /\ Len(payoffData) = 2
    /\ ProfitAt(1) = Cents(5000)
    /\ ProfitAt(2) = Cents(1000000)
    /\ stats.maxLoss = Cents(5000)
    /\ stats.capitalAtRisk = Cents(5000)
    /\ stats.maxLossPct = -100 * PctScale

-----------------------------------------------------------------------------
(* Properties of runBacktest on the derived capital *)

\* the largest loss on a curve: |min(0, min(returns))|
LargestLoss(returns) ==
    LET least == CHOOSE m \in {returns[i] : i \in 1..Len(returns)} :
                    \A i \in 1..Len(returns) : m <= returns[i]
    IN  IF least < 0 THEN -least ELSE 0

\* the derived capital is at least the largest loss of the curve, no period
\* returns less than -100% before the haircut, and the no-flow track is never
\* negative
CapitalCoversLoss ==
    /\ Len(payoff.returns) > 0 => baseCapital >= LargestLoss(payoff.returns)
    /\ pc \in {"loop", "done"} => strategyReturnBrl >= -safeCapital
    /\ capitalWithout >= 0
    /\ \A i \in 1..Len(equityPoints) : equityPoints[i].capitalWithout >= 0
    /\ \A i \in 1..Len(rows) : rows[i].strategyReturn >= -MoveScale

\* C26 as stated: for every strategy cost and every non-empty list of curve
\* returns, deriveBaseCapital returns at least the largest loss on the curve,
\* so that on the derived capital every period's return before the haircut
\* is >= -100% and capitalWithout is never negative at any row.
C26_DerivedCapitalCoversLoss == CapitalCoversLoss

\* what the code does: it is so for a net credit and for no premium
\* (strategyCost >= 0); for a net debit the capital is the debit, whatever
\* the curve loses.
C26_DerivedCapitalCoversLossOfCredit ==
    /\ strategyCost >= 0 => CapitalCoversLoss
    /\ strategyCost < 0 => baseCapital = -strategyCost

\* a debit of 80 on a curve that loses 100 at -10%: the capital is 80, the
\* first period returns -125% and leaves the no-flow track at -20
C26_Witness ==
    /\ pc = "done"
    /\ strategyCost = -80
    /\ payoff = CurveA
    /\ baseCapital = 80
    /\ Len(rows) >= 1
    /\ rows[1].assetReturn = -100000
    /\ rows[1].strategyReturn = -1250000
    /\ equityPoints[1].capitalWithout = -20

\* the no-flow track stands at zero after some row of the run under way
AtZero == pc = "loop" /\ Len(rows) > 0 /\ capitalWithout = 0

\* C27: once capitalWithout is 0 after some row of a run it is 0 at every
\* later row, and every later row has strategyReturn 0 and profit 0 and adds
\* to neither wins nor losses, whatever the later asset returns.
C27_ZeroIsAbsorbing ==
    [][AtZero =>
          /\ capitalWithout' = 0
          /\ wins' = wins
          /\ losses' = losses
          /\ Len(rows') > Len(rows) =>
                /\ Last(rows').strategyReturn = 0
                /\ Last(rows').profit = 0
                /\ Last(equityPoints').capitalWithout = 0]_vars

\* the curve loses the whole derived capital of 100 in the first period; the
\* two later periods, of +10% each, leave the track at zero
C27_Witness ==
    /\ pc = "done"
    /\ payoff = CurveA
    /\ baseCapital = 100
    /\ Len(rows) = 3
    /\ rows[1].assetReturn = -100000
    /\ equityPoints[1].capitalWithout = 0
    /\ rows[2].assetReturn = 100000
    /\ rows[3].assetReturn = 100000
    /\ rows[3].strategyReturn = 0
    /\ rows[3].profit = 0
    /\ equityPoints[3].capitalWithout = 0
    /\ result.metrics.wins = 0
    /\ result.metrics.losses = 1

-----------------------------------------------------------------------------
(* Properties of the cash the vector accounts for *)

\* a run over a history that starts with the placeholder has returned
PlaceholderFirstRun ==
    /\ pc = "done"
    /\ Len(history) > 0
    /\ history[1].returnPct = Null
    /\ Len(irrIn) > 0

\* the withdrawals less the contributions of the first k rows
RECURSIVE RowsNetTo(_)
RowsNetTo(k) ==
    IF k = 0 THEN 0
    ELSE RowsNetTo(k - 1) + rows[k].withdrawal - rows[k].investment

RowsNet == RowsNetTo(Len(rows))

\* the entries of the vector after the first k, added up
RECURSIVE VectorFrom(_)
VectorFrom(k) ==
    IF k > Len(irrIn) THEN 0 ELSE irrIn[k] + VectorFrom(k + 1)

\* the periodic flows of the vector: all but the outlay and the final capital
VectorNet == VectorFrom(2) - finalCapitalWithWithdrawal

\* the periods simulated
PeriodsRun == Len(rows) - 1

MonthlyNet == monthlyWithdrawal - monthlyInvestment

\* C29 as stated: in both frequencies, for a history whose first point is the
\* placeholder, the periodic flows of the IRR vector add up to the
\* withdrawals less the contributions of all rows.
C29_VectorCarriesTheCashOfTheRows ==
    PlaceholderFirstRun => VectorNet = RowsNet

\* C29 as the code has it: in MONTHLY frequency the two sums are equal, N
\* times the monthly net flow for N periods.  In WEEKLY frequency the rows
\* carry N times the weekly amounts (the monthly ones over 4.33) and the
\* vector carries the monthly net flow once for each of the floor(N / 4.33)
\* months completed: the two differ, by less than one monthly net flow,
\* whenever there is a period and the net flow is not zero.
C29_VectorCarriesWholeMonths ==
    PlaceholderFirstRun =>
        /\ frequency = "MONTHLY" =>
              /\ VectorNet = RowsNet
              /\ RowsNet = PeriodsRun * MonthlyNet
        /\ frequency = "WEEKLY" =>
              /\ VectorNet
                    = ((PeriodsRun * 100) \div WEEKLY_PERIODS_PER_MONTH)
                          * MonthlyNet
              /\ RowsNet = PeriodsRun
                    * (RoundDiv(monthlyWithdrawal * 100,
                                WEEKLY_PERIODS_PER_MONTH)
                       - RoundDiv(monthlyInvestment * 100,
                                  WEEKLY_PERIODS_PER_MONTH))
              /\ Abs(RowsNet - VectorNet) < Abs(MonthlyNet) + PeriodsRun
              /\ (PeriodsRun >= 1 /\ MonthlyNet # 0) => VectorNet # RowsNet

\* eight weekly periods with 50 withdrawn and 20 contributed a month: the
\* rows moved 8 * (11.55 - 4.62), the vector holds the 30 of the one month
\* completed
C29_Witness ==
    /\ PlaceholderFirstRun
    /\ frequency = "WEEKLY"
    /\ monthlyWithdrawal = 50
    /\ monthlyInvestment = 20
    /\ PeriodsRun = 8
    /\ VectorNet = 30
    /\ RowsNet = 56

-----------------------------------------------------------------------------
(* Properties of the period count *)

\* a run that emitted rows has returned
RunReturned == pc = "done" /\ Len(rows) > 0

\* the rows simulated from a defined return: one for each such point
RowsFromReturns ==
    Cardinality({i \in 1..Len(history) : history[i].returnPct # Null})

\* C30 as stated: the period count of the monthly-equivalent rates and of the
\* IRR vector is the number of rows simulated from a defined return,
\* placeholder rows excluded, whether or not the history starts with a
\* null-return point.
C30_PeriodCountIsSimulatedRows ==
    RunReturned =>
        /\ numPeriods = RowsFromReturns
        /\ numPeriods > 0 => Len(irrIn) = RowsFromReturns + 1

\* what the code counts: all rows but one.  That is the number of simulated
\* rows when the history starts with a null-return point, whose placeholder
\* row is the one left out, and one less when it starts with a return.
C30_PeriodCountIsRowsLessOne ==
    RunReturned =>
        /\ numPeriods = Len(rows) - 1
        /\ numPeriods > 0 => Len(irrIn) = numPeriods + 1
        /\ numPeriods = 0 => irrIn = <<>>
        /\ history[1].returnPct = Null => numPeriods = RowsFromReturns
        /\ history[1].returnPct # Null => numPeriods = RowsFromReturns - 1

\* two points, both with a return: two rows are simulated, one period is
\* counted and the vector has two entries
C30_Witness ==
    /\ RunReturned
    /\ Len(history) = 2
    /\ history[1].returnPct = 100000
    /\ history[2].returnPct = 100000
    /\ Len(rows) = 2
    /\ numPeriods = 1
    /\ Len(irrIn) = 2

=============================================================================
